---- MODULE Spec2Model ----
(***************************************************************************)
(* Session / device-limit and authentication-state subsystem of the        *)
(* gochart backend: the Session store, the login handlers of the auth      *)
(* controller, the session service, the two authentication middlewares     *)
(* and the lockout methods of the User model.                              *)
(*                                                                         *)
(* Time is counted in minutes.  A timestamp that is not set (null or       *)
(* undefined in the code) is NoTime.                                       *)
(***************************************************************************)
EXTENDS Integers, Sequences, FiniteSets, TLC

\* ------------------------------------------------------------------ bounds
MaxTicks == 2
MaxSessions == 3
MaxRaceSessions == 4
MaxFailures == 2
MaxResets == 3

\* ------------------------------------------------------- program constants
MAX_ACTIVE_SESSIONS == 2
SESSION_DURATION == 24 * 60
JWT_EXPIRES_IN == 24 * 60
maxAttempts == 5
lockTime == 2 * 60
NoTime == -1
NoSession == 0
OTP_EXPIRY_MINUTES == 10
RESET_EXPIRY_MINUTES == 10
NoOtp == <<>>
NoToken == <<>>

\* ------------------------------------------------------------- input sets
Users == {"u1", "u2"}
Emails == {"u1", "nobody"}
Passwords == {"p1", "p2"}
InitialPassword == "p1"
Devices == { [ua |-> "uaA", ip |-> "ip1"],
             [ua |-> "uaA", ip |-> "ip2"],
             [ua |-> "uaB", ip |-> "ip1"] }
HomeDevice == [ua |-> "uaA", ip |-> "ip1"]
SessionIds == 1..(MaxSessions + 1)
Requests == {"r1", "r2"}
InitialPhone(u) == IF u = "u1" THEN "ph1" ELSE "ph2"
RegEmails == {"u1", "u3"}
PendingEmails == {"u3", "u4"}
Phones == {"ph1", "ph3"}
OtpCodes == {"111111", "222222"}
EndDates == {NoTime, 1}
ResetTokens == 1..MaxResets

VARIABLES
  now,        \* the wall clock (Date.now()), in minutes
  ticks,      \* how many times the clock has advanced
  users,      \* the User collection: email -> document
  sessions,   \* the Session collection: sessionId -> document
  nextSid,    \* the next fresh session id (nanoid)
  tokens,     \* the JWTs issued so far
  inflight,   \* the login requests being served: where each one stands
  cron,       \* the node-cron scheduler of the process and its runs so far
  minted      \* how many password-reset tokens were drawn (randomBytes)

vars == <<now, ticks, users, sessions, nextSid, tokens, inflight, cron, minted>>

\* ------------------------------------------------------------- User model
bcryptHash(p) == <<"bcrypt", p>>

comparePassword(usr, candidate) == bcryptHash(candidate) = usr.password

changedPasswordAfter(usr, JWTTimestamp) ==
  IF usr.passwordChangedAt # NoTime
    THEN JWTTimestamp < usr.passwordChangedAt
    ELSE FALSE

\* incLoginAttempts with the threshold test off by one (> maxAttempts).
incLoginAttempts_offByOne(self, stored, t) ==
  IF self.lockUntil # NoTime /\ self.lockUntil < t
    THEN [stored EXCEPT !.loginAttempts = 1, !.lockUntil = NoTime]
    ELSE IF self.loginAttempts + 1 > maxAttempts /\ ~self.isLocked
      THEN [stored EXCEPT !.loginAttempts = @ + 1,
                          !.lockUntil = t + lockTime,
                          !.isLocked = TRUE]
      ELSE [stored EXCEPT !.loginAttempts = @ + 1]

\* self is the document the handler loaded, stored the document in the
\* collection at the time of the update ($inc acts on the stored value).
incLoginAttempts(self, stored, t) ==
  IF self.lockUntil # NoTime /\ self.lockUntil < t
    THEN [stored EXCEPT !.loginAttempts = 1, !.lockUntil = NoTime]
    ELSE IF self.loginAttempts + 1 >= maxAttempts /\ ~self.isLocked
      THEN [stored EXCEPT !.loginAttempts = @ + 1,
                          !.lockUntil = t + lockTime,
                          !.isLocked = TRUE]
      ELSE [stored EXCEPT !.loginAttempts = @ + 1]

\* resetLoginAttempts that clears the lock and keeps the counter.
resetLoginAttempts_keepsCount(stored) ==
  [stored EXCEPT !.lockUntil = NoTime, !.isLocked = FALSE]

resetLoginAttempts(stored) ==
  [stored EXCEPT !.loginAttempts = 0, !.lockUntil = NoTime, !.isLocked = FALSE]

\* The hex digest of crypto.createHash('sha256').update(otp).
sha256(otp) == <<"sha256", otp>>

\* createEmailOTP that keeps the hash of an OTP that is still stored.
createEmailOTP_keepsPending(usr, otp, t) ==
  [usr EXCEPT !.emailOTP = IF usr.emailOTP = NoOtp THEN sha256(otp) ELSE @,
              !.emailOTPExpires = t + OTP_EXPIRY_MINUTES]

\* createEmailOTP, otp being the 6 digits it draws.
createEmailOTP(usr, otp, t) ==
  [usr EXCEPT !.emailOTP = sha256(otp),
              !.emailOTPExpires = t + OTP_EXPIRY_MINUTES]

\* verifyOTP that does not look at the expiry.
verifyOTP_noExpiry(usr, otp, t) ==
  IF usr.emailOTP = NoOtp \/ usr.emailOTPExpires = NoTime THEN FALSE
  ELSE sha256(otp) = usr.emailOTP

verifyOTP(usr, otp, t) ==
  IF usr.emailOTP = NoOtp \/ usr.emailOTPExpires = NoTime THEN FALSE
  ELSE IF usr.emailOTPExpires < t THEN FALSE
  ELSE sha256(otp) = usr.emailOTP

\* A registered account: active, verified, no OTP pending.
NewUser(p, ph) ==
  [ isActive |-> TRUE, isEmailVerified |-> TRUE,
    isLocked |-> FALSE, lockUntil |-> NoTime, loginAttempts |-> 0,
    password |-> bcryptHash(p), passwordChangedAt |-> NoTime,
    phone |-> ph, emailOTP |-> NoOtp, emailOTPExpires |-> NoTime,
    isPremium |-> FALSE, status |-> "cancel", premiumEndDate |-> NoTime,
    passwordResetToken |-> NoToken, passwordResetExpires |-> NoTime ]

\* ---------------------------------------------------------- Session model
\* IsLive that does not compare expiresAt.
IsLive_activeOnly(s, t) == s.isActive

IsLive(s, t) == s.isActive /\ s.expiresAt > t

getActiveSessions(S, u, t) ==
  { id \in DOMAIN S : S[id].userId = u /\ IsLive(S[id], t) }

\* invalidate that records the logout and leaves isActive as it was.
invalidate_keepsActive(S, id, t) ==
  [S EXCEPT ![id].isOnline = FALSE, ![id].logoutTime = t]

invalidate(S, id, t) ==
  [S EXCEPT ![id].isActive = FALSE, ![id].isOnline = FALSE, ![id].logoutTime = t]

updateActivity(S, id, t) == [S EXCEPT ![id].lastActivity = t]

\* cleanupExpired that deletes every inactive session, whatever its age.
cleanupExpired_allInactive(S, t) ==
  LET doomed == { id \in DOMAIN S : S[id].expiresAt < t \/ ~S[id].isActive }
  IN [id \in (DOMAIN S) \ doomed |-> S[id]]

\* cleanupExpired that deletes one matching session per run (deleteOne).
cleanupExpired_deleteOne(S, t) ==
  LET doomed == { id \in DOMAIN S :
                    \/ S[id].expiresAt < t
                    \/ /\ ~S[id].isActive
                       /\ S[id].logoutTime # NoTime
                       /\ S[id].logoutTime < t - 7 * 24 * 60 }
  IN [id \in (DOMAIN S) \ { x \in doomed : \A y \in doomed : x <= y } |-> S[id]]

cleanupExpired(S, t) ==
  LET doomed == { id \in DOMAIN S :
                    \/ S[id].expiresAt < t
                    \/ /\ ~S[id].isActive
                       /\ S[id].logoutTime # NoTime
                       /\ S[id].logoutTime < t - 7 * 24 * 60 }
  IN [id \in (DOMAIN S) \ doomed |-> S[id]]

\* -------------------------------------------------------- Session service
NewSession(u, dev, t) ==
  [ userId |-> u, isActive |-> TRUE, isOnline |-> TRUE,
    ua |-> dev.ua, ip |-> dev.ip,
    lastActivity |-> t, loginTime |-> t, logoutTime |-> NoTime,
    expiresAt |-> t + SESSION_DURATION ]

Insert(S, id, s) == [i \in (DOMAIN S) \cup {id} |-> IF i = id THEN s ELSE S[i]]

\* IsSameDevice comparing the user agent only.
IsSameDevice_uaOnly(s, dev) == s.ua = dev.ua

IsSameDevice(s, dev) == s.ua = dev.ua /\ s.ip = dev.ip

\* activeSessions.find(...) on the list sorted by lastActivity descending:
\* the matching session with the latest activity (any of them on a tie).
FindSameDevice(S, A, dev) ==
  LET M == { id \in A : IsSameDevice(S[id], dev) }
  IN { id \in M : \A o \in M : S[o].lastActivity <= S[id].lastActivity }

\* OldestSessions ordering by loginTime instead of lastActivity.
OldestSessions_byLoginTime(S, A) ==
  { id \in A : \A o \in A : S[id].loginTime <= S[o].loginTime }

\* activeSessions.sort(by lastActivity ascending)[0] (any of them on a tie).
OldestSessions(S, A) ==
  { id \in A : \A o \in A : S[id].lastActivity <= S[o].lastActivity }

\* refreshSession that writes the whole document it read, isActive included.
refreshSession_reactivates(S, id, t) ==
  [S EXCEPT ![id].lastActivity = t, ![id].loginTime = t,
            ![id].isOnline = TRUE, ![id].isActive = TRUE,
            ![id].expiresAt = t + SESSION_DURATION]

\* refreshSession that leaves expiresAt as it was.
refreshSession_noExpiry(S, id, t) ==
  [S EXCEPT ![id].lastActivity = t, ![id].loginTime = t, ![id].isOnline = TRUE]

refreshSession(S, id, t) ==
  [S EXCEPT ![id].lastActivity = t, ![id].loginTime = t,
            ![id].isOnline = TRUE, ![id].expiresAt = t + SESSION_DURATION]

\* What getActiveSessions hands to the service: the live documents of u.
Snapshot(S, u, t) == [id \in getActiveSessions(S, u, t) |-> S[id]]

\* createSessionWrite with the limit test off by one (activeCount > MAX).
createSessionWrite_offByOne(S, seen, u, dev, t, nid) ==
  LET A == DOMAIN seen IN
  IF Cardinality(A) > MAX_ACTIVE_SESSIONS
    THEN IF FindSameDevice(seen, A, dev) # {}
      THEN { [store |-> refreshSession(S, id, t), sid |-> id] :
               id \in FindSameDevice(seen, A, dev) }
      ELSE { [store |-> Insert(invalidate(S, v, t), nid, NewSession(u, dev, t)),
              sid |-> nid] : v \in OldestSessions(seen, A) }
    ELSE { [store |-> Insert(S, nid, NewSession(u, dev, t)), sid |-> nid] }

\* createSession after its read: what it does to the store S, having seen the
\* live documents seen; the store it leaves and the session it returns.
createSessionWrite(S, seen, u, dev, t, nid) ==
  LET A == DOMAIN seen IN
  IF Cardinality(A) >= MAX_ACTIVE_SESSIONS
    THEN IF FindSameDevice(seen, A, dev) # {}
      THEN { [store |-> refreshSession(S, id, t), sid |-> id] :
               id \in FindSameDevice(seen, A, dev) }
      ELSE { [store |-> Insert(invalidate(S, v, t), nid, NewSession(u, dev, t)),
              sid |-> nid] : v \in OldestSessions(seen, A) }
    ELSE { [store |-> Insert(S, nid, NewSession(u, dev, t)), sid |-> nid] }

\* The outcomes of createSession when nothing runs between its read and its
\* writes.
createSession(S, u, dev, t, nid) ==
  createSessionWrite(S, Snapshot(S, u, t), u, dev, t, nid)

Descriptor(S, id) ==
  [ sessionId |-> id, ua |-> S[id].ua, ip |-> S[id].ip,
    lastActivity |-> S[id].lastActivity, loginTime |-> S[id].loginTime ]

\* validateLoginAttempt that rejects at exactly MAX_ACTIVE_SESSIONS sessions
\* and admits above.
validateLoginAttempt_atCapOnly(S, u, dev, t) ==
  LET A == getActiveSessions(S, u, t) IN
  IF Cardinality(A) # MAX_ACTIVE_SESSIONS
    THEN [canLogin |-> TRUE, activeSessions |-> {}]
    ELSE IF \E id \in A : IsSameDevice(S[id], dev)
      THEN [canLogin |-> TRUE, activeSessions |-> {}]
      ELSE [canLogin |-> FALSE,
            activeSessions |-> { Descriptor(S, id) : id \in A }]

validateLoginAttempt(S, u, dev, t) ==
  LET A == getActiveSessions(S, u, t) IN
  IF Cardinality(A) < MAX_ACTIVE_SESSIONS
    THEN [canLogin |-> TRUE, activeSessions |-> {}]
    ELSE IF \E id \in A : IsSameDevice(S[id], dev)
      THEN [canLogin |-> TRUE, activeSessions |-> {}]
      ELSE [canLogin |-> FALSE,
            activeSessions |-> { Descriptor(S, id) : id \in A }]

\* getUserSessions listing every session of the user, live or not.
getUserSessions_all(S, u, t) ==
  { Descriptor(S, id) : id \in { i \in DOMAIN S : S[i].userId = u } }

getUserSessions(S, u, t) ==
  { Descriptor(S, id) : id \in getActiveSessions(S, u, t) }

\* sessionService.forceLogin after its read: the stores it can leave before
\* it calls createSession.
forceLoginEvict(S, seen, t) ==
  IF Cardinality(DOMAIN seen) >= MAX_ACTIVE_SESSIONS
    THEN { invalidate(S, v, t) : v \in OldestSessions(seen, DOMAIN seen) }
    ELSE { S }

\* forceLogin that looks for a session of the device before it evicts.
forceLogin_sameDeviceFirst(S, u, dev, t, nid) ==
  LET A == getActiveSessions(S, u, t) IN
  IF FindSameDevice(S, A, dev) # {}
    THEN { [store |-> refreshSession(S, id, t), sid |-> id] :
             id \in FindSameDevice(S, A, dev) }
    ELSE UNION { createSession(S1, u, dev, t, nid) :
                   S1 \in forceLoginEvict(S, Snapshot(S, u, t), t) }

\* The outcomes of sessionService.forceLogin when nothing runs in between.
forceLogin(S, u, dev, t, nid) ==
  UNION { createSession(S1, u, dev, t, nid) :
            S1 \in forceLoginEvict(S, Snapshot(S, u, t), t) }

\* ------------------------------------------------------------ Token issuer
generateToken(u, sid, t) ==
  [ id |-> u, sessionId |-> sid, iat |-> t, exp |-> t + JWT_EXPIRES_IN ]

jwtVerify(tk, t) == t < tk.exp

\* A request slot that serves no login.
Idle ==
  [ stage |-> "idle", email |-> "", dev |-> [ua |-> "", ip |-> ""],
    seen |-> [id \in {} |-> NewSession("", [ua |-> "", ip |-> ""], 0)],
    user |-> NewUser(InitialPassword, "") ]

\* ------------------------------------------------------------------- Init
Init ==
  /\ now = 0
  /\ ticks = 0
  /\ users = [u \in Users |-> NewUser(InitialPassword, InitialPhone(u))]
  /\ sessions = [id \in {} |-> NewSession("u1", [ua |-> "uaA", ip |-> "ip1"], 0)]
  /\ nextSid = 1
  /\ tokens = {}
  /\ inflight = [r \in Requests |-> Idle]
  /\ cron = [alive |-> TRUE, failures |-> 0, lastRun |-> "none"]
  /\ minted = 0

\* ---------------------------------------------------- auth controller: login
\* CredentialCheck that compares the password before it looks at the lock.
CredentialCheck_passwordFirst(U, email, password) ==
  IF email \notin DOMAIN U THEN "invalid_credentials"
  ELSE IF ~U[email].isActive THEN "deactivated"
  ELSE IF ~U[email].isEmailVerified THEN "unverified"
  ELSE IF ~comparePassword(U[email], password) THEN "wrong_password"
  ELSE IF U[email].isLocked THEN "locked"
  ELSE "ok"

\* CredentialCheck without the isActive test.
CredentialCheck_noActiveCheck(U, email, password) ==
  IF email \notin DOMAIN U THEN "invalid_credentials"
  ELSE IF ~U[email].isEmailVerified THEN "unverified"
  ELSE IF U[email].isLocked THEN "locked"
  ELSE IF ~comparePassword(U[email], password) THEN "wrong_password"
  ELSE "ok"

\* The checks of the login and forceLogin handlers up to the password check.
CredentialCheck(U, email, password) ==
  IF email \notin DOMAIN U THEN "invalid_credentials"
  ELSE IF ~U[email].isActive THEN "deactivated"
  ELSE IF ~U[email].isEmailVerified THEN "unverified"
  ELSE IF U[email].isLocked THEN "locked"
  ELSE IF ~comparePassword(U[email], password) THEN "wrong_password"
  ELSE "ok"

\* What a handler answers and the collections it leaves.
Outcome(status, sid, list, S, U, T) ==
  [ status |-> status, sid |-> sid, activeSessions |-> list,
    sessions |-> S, users |-> U, tokens |-> T ]

\* The outcomes of the handler of POST /auth/login in the state (S, U, T) at
\* time t, nid being the id a new session would get.
login(S, U, T, email, password, dev, force, t, nid) ==
  LET c == CredentialCheck(U, email, password) IN
  IF c = "wrong_password"
    THEN { Outcome("invalid_credentials", NoSession, {}, S,
                   [U EXCEPT ![email] = incLoginAttempts(@, @, t)], T) }
  ELSE IF c # "ok"
    THEN { Outcome(c, NoSession, {}, S, U, T) }
  ELSE
    LET U1 == [U EXCEPT ![email] = resetLoginAttempts(@)]
        v == validateLoginAttempt(S, email, dev, t)
    IN IF ~force /\ ~v.canLogin
         THEN { Outcome("session_limit", NoSession, v.activeSessions, S, U1, T) }
         ELSE { Outcome("ok", r.sid, {}, r.store, U1,
                        T \cup {generateToken(email, r.sid, t)}) :
                  r \in (IF force THEN forceLogin(S, email, dev, t, nid)
                                  ELSE createSession(S, email, dev, t, nid)) }

\* The outcomes of the handler of POST /auth/force-login.
forceLoginHandler(S, U, T, email, password, dev, t, nid) ==
  LET c == CredentialCheck(U, email, password) IN
  IF c = "wrong_password"
    THEN { Outcome("invalid_credentials", NoSession, {}, S,
                   [U EXCEPT ![email] = incLoginAttempts(@, @, t)], T) }
  ELSE IF c # "ok"
    THEN { Outcome(c, NoSession, {}, S, U, T) }
  ELSE { Outcome("ok", r.sid, {}, r.store,
                 [U EXCEPT ![email] = resetLoginAttempts(@)],
                 T \cup {generateToken(email, r.sid, t)}) :
           r \in forceLogin(S, email, dev, t, nid) }

\* A handler's outcome becomes the state; a new session uses up a session id.
Apply(o) ==
  /\ o.sid = nextSid => nextSid <= MaxSessions
  /\ sessions' = o.sessions
  /\ users' = o.users
  /\ tokens' = o.tokens
  /\ nextSid' = IF o.sid = nextSid THEN nextSid + 1 ELSE nextSid
  /\ UNCHANGED <<now, ticks, inflight, cron, minted>>

\* POST /auth/login
Login(email, password, dev, force) ==
  \E o \in login(sessions, users, tokens, email, password, dev, force, now, nextSid) :
    Apply(o)

\* POST /auth/force-login
ForceLoginRoute(email, password, dev) ==
  \E o \in forceLoginHandler(sessions, users, tokens, email, password, dev, now, nextSid) :
    Apply(o)

\* ---------------------------------------- login, one database call at a time
\* The login handler, forceLogin = false, up to its call of createSession.
BeginLogin(r, email, password, dev) ==
  LET c == CredentialCheck(users, email, password) IN
  /\ inflight[r].stage = "idle"
  /\ users' = IF c = "wrong_password"
                THEN [users EXCEPT ![email] = incLoginAttempts(@, @, now)]
              ELSE IF c = "ok"
                THEN [users EXCEPT ![email] = resetLoginAttempts(@)]
              ELSE users
  /\ inflight' =
       IF c # "ok" \/ ~validateLoginAttempt(sessions, email, dev, now).canLogin
         THEN inflight
         ELSE [inflight EXCEPT ![r] =
                 [Idle EXCEPT !.stage = "create", !.email = email, !.dev = dev]]
  /\ UNCHANGED <<now, ticks, sessions, nextSid, tokens, cron, minted>>

\* createSession: Session.getActiveSessions
CreateRead(r) ==
  /\ inflight[r].stage = "create"
  /\ inflight' = [inflight EXCEPT
                    ![r].stage = "write",
                    ![r].seen = Snapshot(sessions, inflight[r].email, now)]
  /\ UNCHANGED <<now, ticks, users, sessions, nextSid, tokens, cron, minted>>

\* createSession: its saves, then the handler signs the token and answers
CreateWrite(r) ==
  /\ inflight[r].stage = "write"
  /\ \E o \in createSessionWrite(sessions, inflight[r].seen, inflight[r].email,
                                 inflight[r].dev, now, nextSid) :
       /\ o.sid = nextSid => nextSid <= MaxRaceSessions
       /\ sessions' = o.store
       /\ nextSid' = IF o.sid = nextSid THEN nextSid + 1 ELSE nextSid
       /\ tokens' = tokens \cup {generateToken(inflight[r].email, o.sid, now)}
  /\ inflight' = [inflight EXCEPT ![r] = Idle]
  /\ UNCHANGED <<now, ticks, users, cron, minted>>

\* ------------------------------- failed login, one database call at a time
\* The login handler up to comparePassword: User.findOne and the checks on
\* the loaded document. A request whose password is wrong goes on to
\* incLoginAttempts with the document it loaded.
LoadUser(r, email, password) ==
  /\ inflight[r].stage = "idle"
  /\ CredentialCheck(users, email, password) \in
       {"invalid_credentials", "deactivated", "unverified", "locked",
        "wrong_password"}
  /\ inflight' =
       IF CredentialCheck(users, email, password) = "wrong_password"
         THEN [inflight EXCEPT ![r] =
                 [Idle EXCEPT !.stage = "failed", !.email = email,
                              !.user = users[email]]]
         ELSE inflight
  /\ UNCHANGED <<now, ticks, users, sessions, nextSid, tokens, cron, minted>>

\* user.incLoginAttempts(): one updateOne decided on the loaded document,
\* then the handler answers 401.
IncAttempts(r) ==
  /\ inflight[r].stage = "failed"
  /\ users' = [users EXCEPT ![inflight[r].email] =
                 incLoginAttempts(inflight[r].user, @, now)]
  /\ inflight' = [inflight EXCEPT ![r] = Idle]
  /\ UNCHANGED <<now, ticks, sessions, nextSid, tokens, cron, minted>>

\* ------------------------------------------------------------ middlewares
\* authenticateWithSession that leaves the session of a missing or inactive
\* user as it is.
authenticateWithSession_noInvalidate(S, U, tk, t) ==
  IF ~jwtVerify(tk, t) \/ tk.sessionId = NoSession
    THEN [ok |-> FALSE, store |-> S]
  ELSE IF ~( /\ tk.sessionId \in DOMAIN S
             /\ S[tk.sessionId].userId = tk.id
             /\ IsLive(S[tk.sessionId], t) )
    THEN [ok |-> FALSE, store |-> S]
  ELSE IF tk.id \notin DOMAIN U \/ ~U[tk.id].isActive
    THEN [ok |-> FALSE, store |-> S]
  ELSE [ok |-> TRUE, store |-> updateActivity(S, tk.sessionId, t)]

\* middleware/sessionAuth.js: whether the request is authenticated, and the
\* session store the middleware leaves.
authenticateWithSession(S, U, tk, t) ==
  IF ~jwtVerify(tk, t) \/ tk.sessionId = NoSession
    THEN [ok |-> FALSE, store |-> S]
  ELSE IF ~( /\ tk.sessionId \in DOMAIN S
             /\ S[tk.sessionId].userId = tk.id
             /\ IsLive(S[tk.sessionId], t) )
    THEN [ok |-> FALSE, store |-> S]
  ELSE IF tk.id \notin DOMAIN U \/ ~U[tk.id].isActive
    THEN [ok |-> FALSE, store |-> invalidate(S, tk.sessionId, t)]
  ELSE [ok |-> TRUE, store |-> updateActivity(S, tk.sessionId, t)]

\* middleware/auth.js: the JWT-only middleware of the user and admin routes.
authenticate(U, tk, t) ==
  /\ jwtVerify(tk, t)
  /\ tk.id \in DOMAIN U
  /\ U[tk.id].isActive
  /\ ~U[tk.id].isLocked
  /\ ~changedPasswordAfter(U[tk.id], tk.iat)

\* terminateSession that does not compare the owner.
terminateSession_anyOwner(S, sessionId, userId, t) ==
  IF sessionId \in DOMAIN S /\ S[sessionId].isActive
    THEN [success |-> TRUE, store |-> invalidate(S, sessionId, t)]
    ELSE [success |-> FALSE, store |-> S]

\* sessionService.terminateSession
terminateSession(S, sessionId, userId, t) ==
  IF sessionId \in DOMAIN S /\ S[sessionId].userId = userId /\ S[sessionId].isActive
    THEN [success |-> TRUE, store |-> invalidate(S, sessionId, t)]
    ELSE [success |-> FALSE, store |-> S]

\* terminateAllOtherSessions without the exception of the current session
\* (what Session.terminateUserSessions does).
terminateAllOtherSessions_all(S, userId, currentSessionId, t) ==
  [ id \in DOMAIN S |->
      IF S[id].userId = userId /\ S[id].isActive
        THEN [S[id] EXCEPT !.isActive = FALSE, !.isOnline = FALSE,
                           !.logoutTime = t]
        ELSE S[id] ]

\* sessionService.terminateAllOtherSessions: the collection its updateMany
\* leaves.
terminateAllOtherSessions(S, userId, currentSessionId, t) ==
  [ id \in DOMAIN S |->
      IF S[id].userId = userId /\ S[id].isActive /\ id # currentSessionId
        THEN [S[id] EXCEPT !.isActive = FALSE, !.isOnline = FALSE,
                           !.logoutTime = t]
        ELSE S[id] ]

\* -------------------------------------- routes behind authenticateWithSession
\* GET /auth/me, and any other route that only reads
GetMe(tk) ==
  /\ sessions' = authenticateWithSession(sessions, users, tk, now).store
  /\ UNCHANGED <<now, ticks, users, nextSid, tokens, inflight, cron, minted>>

\* The session store POST /auth/logout leaves.
logout(S, U, tk, t) ==
  LET a == authenticateWithSession(S, U, tk, t) IN
  IF a.ok THEN terminateSession(a.store, tk.sessionId, tk.id, t).store
          ELSE a.store

\* POST /auth/logout
Logout(tk) ==
  /\ sessions' = logout(sessions, users, tk, now)
  /\ UNCHANGED <<now, ticks, users, nextSid, tokens, inflight, cron, minted>>

\* GET /auth/sessions: the list it answers with; its effect is GetMe's.
listSessions(S, U, tk, t) ==
  LET a == authenticateWithSession(S, U, tk, t) IN
  IF a.ok THEN [status |-> "ok", sessions |-> getUserSessions(a.store, tk.id, t)]
          ELSE [status |-> "auth_failed", sessions |-> {}]

\* DELETE /auth/sessions/:sessionId
TerminateSession(tk, sessionId) ==
  LET a == authenticateWithSession(sessions, users, tk, now) IN
  /\ sessions' = IF a.ok
                   THEN terminateSession(a.store, sessionId, tk.id, now).store
                   ELSE a.store
  /\ UNCHANGED <<now, ticks, users, nextSid, tokens, inflight, cron, minted>>

\* ----------------------------------------------------------- route table
\* A path segment that spells a session id, one that is a word, and the
\* segment of a route pattern that is a parameter.
IdSegment(id) == <<"nanoid", id>>
Word(w) == <<w>>
Param(name) == <<":", name>>

\* The router.delete calls of the auth router in the order of registration.
DeleteRoutes ==
  << [ path |-> <<Word("sessions"), Param("sessionId")>>,
       handler |-> "terminateSession" ],
     [ path |-> <<Word("sessions"), Word("others")>>,
       handler |-> "terminateAllOtherSessions" ] >>

\* Whether a pattern matches a path: a parameter matches any segment.
Matches(pattern, path) ==
  /\ Len(pattern) = Len(path)
  /\ \A k \in 1..Len(pattern) :
       IF pattern[k][1] = ":" THEN TRUE ELSE pattern[k] = path[k]

\* The handler of the first registered route that matches.
Dispatch(routes, path) ==
  LET M == { i \in 1..Len(routes) : Matches(routes[i].path, path) } IN
  IF M = {} THEN "no_route"
  ELSE routes[CHOOSE i \in M : \A j \in M : i <= j].handler

\* req.params.sessionId as a key of the Session collection: the session id
\* the segment spells, and the id of no session for any other text.
ParamSession(segment) ==
  IF segment[1] = "nanoid" THEN segment[2] ELSE NoSession

\* An authenticated DELETE request to a path of the auth router: what it
\* answers and the session store it leaves.
deleteRequest(S, U, tk, path, t) ==
  LET a == authenticateWithSession(S, U, tk, t)
      h == Dispatch(DeleteRoutes, path)
  IN IF ~a.ok THEN [status |-> "auth_failed", store |-> a.store]
     ELSE IF h = "terminateSession"
       THEN LET r == terminateSession(a.store, ParamSession(path[2]), tk.id, t)
            IN [status |-> IF r.success THEN "ok" ELSE "not_found",
                store |-> r.store]
     ELSE IF h = "terminateAllOtherSessions"
       THEN [status |-> "ok",
             store |-> terminateAllOtherSessions(a.store, tk.id, tk.sessionId, t)]
     ELSE [status |-> "not_found", store |-> a.store]

DeleteRequest(tk, path) ==
  /\ sessions' = deleteRequest(sessions, users, tk, path, now).store
  /\ UNCHANGED <<now, ticks, users, nextSid, tokens, inflight, cron, minted>>

\* PUT /auth/change-password
ChangePassword(tk, currentPassword, newPassword) ==
  LET a == authenticateWithSession(sessions, users, tk, now) IN
  /\ sessions' = a.store
  /\ users' = IF a.ok /\ comparePassword(users[tk.id], currentPassword)
                THEN [users EXCEPT ![tk.id].password = bcryptHash(newPassword),
                                   ![tk.id].passwordChangedAt = now]
                ELSE users
  /\ UNCHANGED <<now, ticks, nextSid, tokens, inflight, cron, minted>>

\* ------------------------------------------------ routes behind authenticate
\* GET /user/ and the other routes of the user and admin routers: a request
\* that passes the middleware reads, and changes nothing that is modelled.
GetUser(tk) ==
  /\ authenticate(users, tk, now)
  /\ UNCHANGED vars

\* --------------------------------------- the session service, called directly
\* sessionService.createSession(userId, userAgent, ipAddress)
CreateSessionCall(u, dev) ==
  \E r \in createSession(sessions, u, dev, now, nextSid) :
    /\ r.sid = nextSid => nextSid <= MaxSessions
    /\ sessions' = r.store
    /\ nextSid' = IF r.sid = nextSid THEN nextSid + 1 ELSE nextSid
    /\ UNCHANGED <<now, ticks, users, tokens, inflight, cron, minted>>

\* sessionService.terminateSession(sessionId, userId)
TerminateSessionCall(sessionId, userId) ==
  /\ sessions' = terminateSession(sessions, sessionId, userId, now).store
  /\ UNCHANGED <<now, ticks, users, nextSid, tokens, inflight, cron, minted>>

\* sessionService.terminateAllOtherSessions(userId, currentSessionId)
TerminateAllOtherSessionsCall(userId, currentSessionId) ==
  /\ sessions' = terminateAllOtherSessions(sessions, userId, currentSessionId, now)
  /\ UNCHANGED <<now, ticks, users, nextSid, tokens, inflight, cron, minted>>

\* ------------------------------------------------- registration and OTPs
\* The placeholder sendRegistrationOTP creates, before createEmailOTP.
Placeholder ==
  [ NewUser("temp", "temp") EXCEPT !.isActive = FALSE,
                                   !.isEmailVerified = FALSE ]

\* The unique index on phone: another document holds the value.
PhoneTaken(U, email, phone) ==
  \E e \in (DOMAIN U) \ {email} : U[e].phone = phone

\* The emailed response: the OTP is saved before the mail is sent, and a
\* failure of the mail service is answered as an error.
Mailed == {"ok", "mail_failed"}

\* POST /auth/send-registration-otp
sendRegistrationOTP(S, U, T, email, t) ==
  IF email \in DOMAIN U
    THEN { Outcome("conflict", NoSession, {}, S, U, T) }
  ELSE IF PhoneTaken(U, email, "temp")
    THEN { Outcome("duplicate_key", NoSession, {}, S, U, T) }
  ELSE { Outcome(st, NoSession, {}, S,
                 [e \in (DOMAIN U) \cup {email} |->
                    IF e = email THEN createEmailOTP(Placeholder, otp, t)
                                 ELSE U[e]],
                 T) : otp \in OtpCodes, st \in Mailed }

\* register that leaves the OTP hash and expiry on the record.
register_keepsOtp(S, U, T, email, phone, password, otp, t) ==
  IF email \notin DOMAIN U \/ U[email].isEmailVerified \/ U[email].isActive
    THEN { Outcome("no_pending", NoSession, {}, S, U, T) }
  ELSE IF ~verifyOTP(U[email], otp, t)
    THEN { Outcome("invalid_otp", NoSession, {}, S, U, T) }
  ELSE IF \E e \in (DOMAIN U) \ {email} : U[e].phone = phone /\ U[e].isActive
    THEN { Outcome("conflict", NoSession, {}, S, U, T) }
  ELSE IF PhoneTaken(U, email, phone)
    THEN { Outcome("duplicate_key", NoSession, {}, S, U, T) }
  ELSE { Outcome("ok", NoSession, {}, S,
                 [U EXCEPT ![email].phone = phone,
                           ![email].password = bcryptHash(password),
                           ![email].isEmailVerified = TRUE,
                           ![email].isActive = TRUE],
                 T \cup {generateToken(email, NoSession, t)}) }

\* register with the OTP cleared before the phone is looked up.
register_clearsEarly(S, U, T, email, phone, password, otp, t) ==
  IF email \notin DOMAIN U \/ U[email].isEmailVerified \/ U[email].isActive
    THEN { Outcome("no_pending", NoSession, {}, S, U, T) }
  ELSE IF ~verifyOTP(U[email], otp, t)
    THEN { Outcome("invalid_otp", NoSession, {}, S, U, T) }
  ELSE IF \E e \in (DOMAIN U) \ {email} : U[e].phone = phone /\ U[e].isActive
    THEN { Outcome("conflict", NoSession, {}, S,
                   [U EXCEPT ![email].emailOTP = NoOtp,
                             ![email].emailOTPExpires = NoTime], T) }
  ELSE IF PhoneTaken(U, email, phone)
    THEN { Outcome("duplicate_key", NoSession, {}, S, U, T) }
  ELSE { Outcome("ok", NoSession, {}, S,
                 [U EXCEPT ![email].phone = phone,
                           ![email].password = bcryptHash(password),
                           ![email].isEmailVerified = TRUE,
                           ![email].isActive = TRUE,
                           ![email].emailOTP = NoOtp,
                           ![email].emailOTPExpires = NoTime],
                 T \cup {generateToken(email, NoSession, t)}) }

\* POST /auth/register
register(S, U, T, email, phone, password, otp, t) ==
  IF email \notin DOMAIN U \/ U[email].isEmailVerified \/ U[email].isActive
    THEN { Outcome("no_pending", NoSession, {}, S, U, T) }
  ELSE IF ~verifyOTP(U[email], otp, t)
    THEN { Outcome("invalid_otp", NoSession, {}, S, U, T) }
  ELSE IF \E e \in (DOMAIN U) \ {email} : U[e].phone = phone /\ U[e].isActive
    THEN { Outcome("conflict", NoSession, {}, S, U, T) }
  ELSE IF PhoneTaken(U, email, phone)
    THEN { Outcome("duplicate_key", NoSession, {}, S, U, T) }
  ELSE { Outcome("ok", NoSession, {}, S,
                 [U EXCEPT ![email].phone = phone,
                           ![email].password = bcryptHash(password),
                           ![email].isEmailVerified = TRUE,
                           ![email].isActive = TRUE,
                           ![email].emailOTP = NoOtp,
                           ![email].emailOTPExpires = NoTime],
                 T \cup {generateToken(email, NoSession, t)}) }

\* POST /auth/verify-email-otp
verifyEmailOTP(S, U, T, email, otp, t) ==
  IF email \notin DOMAIN U
    THEN { Outcome("unknown_email", NoSession, {}, S, U, T) }
  ELSE IF U[email].isEmailVerified
    THEN { Outcome("already_verified", NoSession, {}, S, U, T) }
  ELSE IF ~verifyOTP(U[email], otp, t)
    THEN { Outcome("invalid_otp", NoSession, {}, S, U, T) }
  ELSE { Outcome("ok", NoSession, {}, S,
                 [U EXCEPT ![email].isEmailVerified = TRUE,
                           ![email].emailOTP = NoOtp,
                           ![email].emailOTPExpires = NoTime],
                 T \cup {generateToken(email, NoSession, t)}) }

\* POST /auth/resend-verification
resendVerificationEmail(S, U, T, email, t) ==
  IF email \notin DOMAIN U \/ U[email].isEmailVerified
    THEN { Outcome("ok", NoSession, {}, S, U, T) }
  ELSE { Outcome(st, NoSession, {}, S,
                 [U EXCEPT ![email] = createEmailOTP(@, otp, t)], T) :
           otp \in OtpCodes, st \in Mailed }

\* sendPasswordResetOTP that saves the OTP only after the mail was sent.
sendPasswordResetOTP_saveAfterMail(S, U, T, email, t) ==
  IF email \notin DOMAIN U
    THEN { Outcome("ok", NoSession, {}, S, U, T) }
  ELSE IF ~U[email].isEmailVerified
    THEN { Outcome("unverified", NoSession, {}, S, U, T) }
  ELSE { Outcome("ok", NoSession, {}, S,
                 [U EXCEPT ![email] = createEmailOTP(@, otp, t)], T) :
           otp \in OtpCodes }
       \cup { Outcome("mail_failed", NoSession, {}, S, U, T) }

\* POST /auth/send-reset-otp
sendPasswordResetOTP(S, U, T, email, t) ==
  IF email \notin DOMAIN U
    THEN { Outcome("ok", NoSession, {}, S, U, T) }
  ELSE IF ~U[email].isEmailVerified
    THEN { Outcome("unverified", NoSession, {}, S, U, T) }
  ELSE { Outcome(st, NoSession, {}, S,
                 [U EXCEPT ![email] = createEmailOTP(@, otp, t)], T) :
           otp \in OtpCodes, st \in Mailed }

\* POST /auth/verify-otp-reset
verifyOTPAndResetPassword(S, U, T, email, otp, password, t) ==
  IF email \notin DOMAIN U
    THEN { Outcome("unknown_email", NoSession, {}, S, U, T) }
  ELSE IF ~verifyOTP(U[email], otp, t)
    THEN { Outcome("invalid_otp", NoSession, {}, S, U, T) }
  ELSE { Outcome("ok", NoSession, {}, S,
                 [U EXCEPT ![email].password = bcryptHash(password),
                           ![email].emailOTP = NoOtp,
                           ![email].emailOTPExpires = NoTime,
                           ![email].passwordChangedAt = t],
                 T) }

SendRegistrationOTP(email) ==
  \E o \in sendRegistrationOTP(sessions, users, tokens, email, now) : Apply(o)

Register(email, phone, password, otp) ==
  \E o \in register(sessions, users, tokens, email, phone, password, otp, now) :
    Apply(o)

VerifyEmailOTP(email, otp) ==
  \E o \in verifyEmailOTP(sessions, users, tokens, email, otp, now) : Apply(o)

ResendVerificationEmail(email) ==
  \E o \in resendVerificationEmail(sessions, users, tokens, email, now) : Apply(o)

SendPasswordResetOTP(email) ==
  \E o \in sendPasswordResetOTP(sessions, users, tokens, email, now) : Apply(o)

VerifyOTPAndResetPassword(email, otp, password) ==
  \E o \in verifyOTPAndResetPassword(sessions, users, tokens, email, otp,
                                     password, now) :
    Apply(o)

\* ---------------------- password reset by OTP, one database call at a time
\* verifyOTPAndResetPassword up to its save: User.findOne and verifyOTP on
\* the loaded document. A request whose code is refused is answered 401.
LoadForReset(r, email, otp) ==
  /\ inflight[r].stage = "idle"
  /\ email \in DOMAIN users
  /\ inflight' =
       [inflight EXCEPT ![r] =
          [Idle EXCEPT !.stage = IF verifyOTP(users[email], otp, now)
                                   THEN "verified" ELSE "refused",
                       !.email = email, !.user = users[email]]]
  /\ UNCHANGED <<now, ticks, users, sessions, nextSid, tokens, cron, minted>>

\* verifyOTPAndResetPassword: user.save() writes the paths the handler
\* assigned, whatever the stored document holds by then, and the request is
\* answered 200.
SaveReset(r, password) ==
  /\ inflight[r].stage = "verified"
  /\ users' = [users EXCEPT
                 ![inflight[r].email].password = bcryptHash(password),
                 ![inflight[r].email].emailOTP = NoOtp,
                 ![inflight[r].email].emailOTPExpires = NoTime,
                 ![inflight[r].email].passwordChangedAt = now]
  /\ inflight' = [inflight EXCEPT ![r].stage = "succeeded"]
  /\ UNCHANGED <<now, ticks, sessions, nextSid, tokens, cron, minted>>

\* ------------------------------------------------ password reset by token
\* jwtHelper.hashToken
hashToken(token) == <<"sha256", token>>

\* POST /auth/forgot-password: the User collection it leaves, resetToken
\* being the 32 random bytes it draws.
forgotPassword(U, email, resetToken, t) ==
  IF email \notin DOMAIN U THEN U
  ELSE [U EXCEPT ![email].passwordResetToken = hashToken(resetToken),
                 ![email].passwordResetExpires = t + RESET_EXPIRY_MINUTES]

\* The users resetPassword's findOne matches.
ResetMatches(U, token, t) ==
  { e \in DOMAIN U : /\ U[e].passwordResetToken = hashToken(token)
                     /\ U[e].passwordResetExpires # NoTime
                     /\ U[e].passwordResetExpires > t }

\* resetPassword that leaves the token and its expiry on the record.
resetPassword_keepsToken(U, token, password, t) ==
  IF ResetMatches(U, token, t) = {}
    THEN { [status |-> "invalid_token", users |-> U] }
    ELSE { [status |-> "ok",
            users |-> [U EXCEPT ![e].password = bcryptHash(password),
                                ![e].passwordChangedAt = t]] :
             e \in ResetMatches(U, token, t) }

\* POST /auth/reset-password
resetPassword(U, token, password, t) ==
  IF ResetMatches(U, token, t) = {}
    THEN { [status |-> "invalid_token", users |-> U] }
    ELSE { [status |-> "ok",
            users |-> [U EXCEPT ![e].password = bcryptHash(password),
                                ![e].passwordResetToken = NoToken,
                                ![e].passwordResetExpires = NoTime,
                                ![e].passwordChangedAt = t]] :
             e \in ResetMatches(U, token, t) }

ForgotPassword(email) ==
  /\ email \in DOMAIN users => minted < MaxResets
  /\ users' = forgotPassword(users, email, minted + 1, now)
  /\ minted' = IF email \in DOMAIN users THEN minted + 1 ELSE minted
  /\ UNCHANGED <<now, ticks, sessions, nextSid, tokens, inflight, cron>>

ResetPassword(token, password) ==
  /\ \E o \in resetPassword(users, token, password, now) : users' = o.users
  /\ UNCHANGED <<now, ticks, sessions, nextSid, tokens, inflight, cron, minted>>

\* ------------------------------------------------------- user management
\* DELETE /user/:userId by an administrator: User.findByIdAndDelete. The
\* sessions of the user stay in the Session collection.
deleteUser(U, userId) == [e \in (DOMAIN U) \ {userId} |-> U[e]]

DeleteUser(userId) ==
  /\ users' = deleteUser(users, userId)
  /\ UNCHANGED <<now, ticks, sessions, nextSid, tokens, inflight, cron, minted>>

\* ------------------------------------------- subscriptions and scheduled jobs
\* POST /admin/userstatus by an administrator: approve (status = true) with
\* the premiumEndDate of the request, or decline.
userStatus(U, id, status, premiumEndDate) ==
  IF id \notin DOMAIN U THEN U
  ELSE IF status
    THEN [U EXCEPT ![id].isPremium = TRUE, ![id].status = "paid",
                   ![id].premiumEndDate = premiumEndDate]
    ELSE [U EXCEPT ![id].isPremium = FALSE, ![id].status = "cancel",
                   ![id].premiumEndDate = NoTime]

UserStatus(id, status, premiumEndDate) ==
  /\ users' = userStatus(users, id, status, premiumEndDate)
  /\ UNCHANGED <<now, ticks, sessions, nextSid, tokens, inflight, cron, minted>>

\* The users checkPremiumStatus finds.
ExpiredPremium(U, t) ==
  { e \in DOMAIN U : /\ U[e].isPremium
                     /\ U[e].premiumEndDate # NoTime
                     /\ U[e].premiumEndDate < t
                     /\ U[e].status # "cancel" }

\* The User collection after the users in D were saved by checkPremiumStatus.
Downgrade(U, D) ==
  [ e \in DOMAIN U |->
      IF e \in D THEN [U[e] EXCEPT !.isPremium = FALSE, !.status = "cancel"]
                 ELSE U[e] ]

\* checkPremiumStatus that clears isPremium and leaves the status.
checkPremiumStatus_keepsStatus(U, t, fails) ==
  LET expired == ExpiredPremium(U, t) IN
  IF fails
    THEN { [status |-> "error", updatedCount |-> 0, users |-> Downgrade(U, D)] :
             D \in { X \in SUBSET expired : X = {} \/ X # expired } }
    ELSE { [status |-> "ok", updatedCount |-> Cardinality(expired),
            users |-> [ e \in DOMAIN U |->
                          IF e \in expired THEN [U[e] EXCEPT !.isPremium = FALSE]
                                           ELSE U[e] ]] }

\* GET /admin/check-premium-status. When the database fails, the find or one
\* of the saves throws, after the users in D were saved, and the handler
\* answers with the error.
checkPremiumStatus(U, t, fails) ==
  LET expired == ExpiredPremium(U, t) IN
  IF fails
    THEN { [status |-> "error", updatedCount |-> 0, users |-> Downgrade(U, D)] :
             D \in { X \in SUBSET expired : X = {} \/ X # expired } }
    ELSE { [status |-> "ok", updatedCount |-> Cardinality(expired),
            users |-> Downgrade(U, expired)] }

\* The callback of startPremiumStatusCheck: it fetches the endpoint; escaped
\* tells whether an exception leaves the callback. When fails, the fetch is
\* rejected or the endpoint answers with an error.
premiumStatusCallback(U, t, fails) ==
  { [users |-> o.users, escaped |-> FALSE] : o \in checkPremiumStatus(U, t, fails) }
  \cup (IF fails THEN { [users |-> U, escaped |-> FALSE] } ELSE {})

\* The cleanup callback without its try/catch.
sessionCleanupCallback_noCatch(S, t, fails) ==
  IF fails
    THEN { [store |-> [id \in (DOMAIN S) \ D |-> S[id]], escaped |-> TRUE] :
             D \in SUBSET ((DOMAIN S) \ DOMAIN cleanupExpired(S, t)) }
    ELSE { [store |-> cleanupExpired(S, t), escaped |-> FALSE] }

\* The callback of startSessionCleanup. When fails, the import or the
\* deleteMany throws, after the sessions in D were deleted.
sessionCleanupCallback(S, t, fails) ==
  IF fails
    THEN { [store |-> [id \in (DOMAIN S) \ D |-> S[id]], escaped |-> FALSE] :
             D \in SUBSET ((DOMAIN S) \ DOMAIN cleanupExpired(S, t)) }
    ELSE { [store |-> cleanupExpired(S, t), escaped |-> FALSE] }

\* What a run of a scheduled callback leaves of the scheduler: an exception
\* that leaves an async callback is an unhandled rejection, which ends the
\* process.
Scheduled(c, fails, escaped) ==
  [ alive |-> c.alive /\ ~escaped,
    failures |-> IF fails THEN c.failures + 1 ELSE c.failures,
    lastRun |-> IF fails THEN "failed" ELSE "ok" ]

\* cron: 0 */6 * * *
PremiumStatusJob(fails) ==
  /\ cron.alive
  /\ fails => cron.failures < MaxFailures
  /\ \E r \in premiumStatusCallback(users, now, fails) :
       /\ users' = r.users
       /\ cron' = Scheduled(cron, fails, r.escaped)
  /\ UNCHANGED <<now, ticks, sessions, nextSid, tokens, inflight, minted>>

\* cron: 0 2 * * *
SessionCleanupJob(fails) ==
  /\ cron.alive
  /\ fails => cron.failures < MaxFailures
  /\ \E r \in sessionCleanupCallback(sessions, now, fails) :
       /\ sessions' = r.store
       /\ cron' = Scheduled(cron, fails, r.escaped)
  /\ UNCHANGED <<now, ticks, users, nextSid, tokens, inflight, minted>>

\* ------------------------------------------------------------ environment
\* The daily session cleanup job.
Sweep ==
  /\ sessions' = cleanupExpired(sessions, now)
  /\ UNCHANGED <<now, ticks, users, nextSid, tokens, inflight, cron, minted>>

Tick(steps) ==
  /\ ticks < MaxTicks
  /\ \E d \in steps : now' = now + d
  /\ ticks' = ticks + 1
  /\ UNCHANGED <<users, sessions, nextSid, tokens, inflight, cron, minted>>

\* The session subsystem: a user who types the password correctly (and an
\* unknown email), the session routes, the cleanup job and the clock.
Next ==
  \/ \E e \in Emails, d \in Devices, f \in BOOLEAN :
       Login(e, InitialPassword, d, f)
  \/ \E d \in Devices : ForceLoginRoute("u1", InitialPassword, d)
  \/ \E tk \in tokens : GetMe(tk)
  \/ \E tk \in tokens : Logout(tk)
  \/ \E tk \in tokens, sid \in SessionIds : TerminateSession(tk, sid)
  \/ \E tk \in tokens : GetUser(tk)
  \/ Sweep
  \/ Tick({1, SESSION_DURATION})

Spec == Init /\ [][Next]_vars

\* Two logins (forceLogin = false) of one user served at the same time, each
\* database call a step of its own, within one reading of the clock.
NextRace ==
  \/ \E r \in Requests, d \in Devices : BeginLogin(r, "u1", InitialPassword, d)
  \/ \E r \in Requests : CreateRead(r)
  \/ \E r \in Requests : CreateWrite(r)

SpecRace == Init /\ [][NextRace]_vars

\* Two logins of one user with a wrong password served at the same time, the
\* load of the user and the update of the counter being separate steps.
NextLockRace ==
  \/ \E r \in Requests : LoadUser(r, "u1", "p2")
  \/ \E r \in Requests : IncAttempts(r)
  \/ Tick({1})

SpecLockRace == Init /\ [][NextLockRace]_vars

\* Two requests to reset the password of one user by OTP, each served once,
\* the load of the user and the save being separate steps, next to the
\* requests for a code and the clock.
NextOtpRace ==
  \/ SendPasswordResetOTP("u1")
  \/ \E r \in Requests, c \in OtpCodes : LoadForReset(r, "u1", c)
  \/ \E r \in Requests : SaveReset(r, "p2")
  \/ Tick({1, OTP_EXPIRY_MINUTES})

SpecOtpRace == Init /\ [][NextOtpRace]_vars

\* Registrations of two emails that have no record yet: the requests for a
\* code, the registrations that complete them, and the clock.
NextPending ==
  \/ \E e \in PendingEmails : SendRegistrationOTP(e)
  \/ \E e \in PendingEmails, ph \in Phones, c \in OtpCodes :
       Register(e, ph, InitialPassword, c)
  \/ Tick({1, OTP_EXPIRY_MINUTES})

SpecPending == Init /\ [][NextPending]_vars

\* A user who logs in and sends requests, and an administrator who deletes
\* accounts. No logout and no forced login: only the middleware invalidates.
NextDelete ==
  \/ \E d \in {x \in Devices : x.ip = HomeDevice.ip} :
       Login("u1", InitialPassword, d, FALSE)
  \/ \E u \in Users : DeleteUser(u)
  \/ \E tk \in tokens : GetMe(tk)
  \/ Tick({SESSION_DURATION})

SpecDelete == Init /\ [][NextDelete]_vars

\* Every writer of the Session collection for one user on two devices:
\* forced logins, logins (forceLogin = false) whose database calls are
\* interleaved with the other requests, requests that update the activity,
\* logout, the two terminations of the service, the cleanup job and the
\* clock, which advances between requests.
NextLifecycle ==
  \/ ForceLoginRoute("u1", InitialPassword, HomeDevice)
  \/ \E d \in {x \in Devices : x.ip = HomeDevice.ip} :
       BeginLogin("r1", "u1", InitialPassword, d)
  \/ CreateRead("r1")
  \/ CreateWrite("r1")
  \/ \E tk \in tokens : GetMe(tk)
  \/ \E tk \in tokens : Logout(tk)
  \/ \E sid \in SessionIds : TerminateSessionCall(sid, "u1")
  \/ \E tk \in tokens : TerminateAllOtherSessionsCall("u1", tk.sessionId)
  \/ Sweep
  \/ (inflight["r1"].stage = "idle" /\ Tick({SESSION_DURATION}))

SpecLifecycle == Init /\ [][NextLifecycle]_vars

\* Logins of one user from two devices served at the same time, which can
\* pass the cap, next to logins served one at a time and forced logins from
\* a third device.
NextOverCap ==
  \/ \E r \in Requests, d \in {x \in Devices : x.ip = HomeDevice.ip} :
       BeginLogin(r, "u1", InitialPassword, d)
  \/ \E r \in Requests : CreateRead(r)
  \/ \E r \in Requests : CreateWrite(r)
  \/ Login("u1", InitialPassword, HomeDevice, FALSE)
  \/ \E d \in {x \in Devices : x.ip # HomeDevice.ip} :
       ForceLoginRoute("u1", InitialPassword, d)

SpecOverCap == Init /\ [][NextOverCap]_vars

\* A user on two devices who sends DELETE requests to /auth/sessions/<id>
\* and /auth/sessions/others, and the clock.
NextRoutes ==
  \/ \E d \in {x \in Devices : x.ip = HomeDevice.ip} :
       Login("u1", InitialPassword, d, FALSE)
  \/ \E tk \in tokens, id \in SessionIds :
       DeleteRequest(tk, <<Word("sessions"), IdSegment(id)>>)
  \/ \E tk \in tokens : DeleteRequest(tk, <<Word("sessions"), Word("others")>>)
  \/ Tick({1, SESSION_DURATION})

SpecRoutes == Init /\ [][NextRoutes]_vars

\* Logins from one device with right and wrong passwords, and the clock.
NextLock ==
  \/ \E p \in Passwords, f \in BOOLEAN : Login("u1", p, HomeDevice, f)
  \/ \E p \in Passwords : ForceLoginRoute("u1", p, HomeDevice)
  \/ Tick({1, lockTime})

SpecLock == Init /\ [][NextLock]_vars

\* Logins from one device, password changes and requests with the tokens
\* issued.
NextPassword ==
  \/ \E p \in Passwords : Login("u1", p, HomeDevice, FALSE)
  \/ \E tk \in tokens, cur \in Passwords, new \in Passwords :
       ChangePassword(tk, cur, new)
  \/ \E tk \in tokens : GetMe(tk)
  \/ \E tk \in tokens : GetUser(tk)
  \/ Tick({1, SESSION_DURATION})

SpecPassword == Init /\ [][NextPassword]_vars

\* Registration with OTPs, verification and password reset by OTP.
NextRegister ==
  \/ \E e \in RegEmails : SendRegistrationOTP(e)
  \/ \E e \in RegEmails, ph \in Phones, c \in OtpCodes :
       Register(e, ph, InitialPassword, c)
  \/ \E e \in RegEmails, c \in OtpCodes : VerifyEmailOTP(e, c)
  \/ \E e \in RegEmails : ResendVerificationEmail(e)
  \/ \E e \in RegEmails : SendPasswordResetOTP(e)
  \/ \E e \in RegEmails, c \in OtpCodes :
       VerifyOTPAndResetPassword(e, c, "p2")
  \/ Tick({1, OTP_EXPIRY_MINUTES})

SpecRegister == Init /\ [][NextRegister]_vars

\* One new account from its placeholder to its lockout: registration, and
\* logins with right and wrong passwords at every stage.
NextAccount ==
  \/ SendRegistrationOTP("u3")
  \/ \E c \in OtpCodes : Register("u3", "ph3", InitialPassword, c)
  \/ \E c \in OtpCodes : VerifyEmailOTP("u3", c)
  \/ \E p \in Passwords, f \in BOOLEAN : Login("u3", p, HomeDevice, f)
  \/ \E p \in Passwords : ForceLoginRoute("u3", p, HomeDevice)
  \/ Tick({1})

SpecAccount == Init /\ [][NextAccount]_vars

\* The session service under any sequence of calls for two users, one with
\* two devices and one with one.
NextService ==
  \/ \E d \in {x \in Devices : x.ip = HomeDevice.ip} : CreateSessionCall("u1", d)
  \/ CreateSessionCall("u2", HomeDevice)
  \/ \E sid \in SessionIds, u \in Users : TerminateSessionCall(sid, u)
  \/ \E u \in Users, sid \in SessionIds \cup {NoSession} :
       TerminateAllOtherSessionsCall(u, sid)
  \/ Tick({SESSION_DURATION})

SpecService == Init /\ [][NextService]_vars

\* Sessions of one user on two devices, their logouts, the cleanup job and
\* the clock.
NextSweep ==
  \/ \E d \in {x \in Devices : x.ip = HomeDevice.ip}, f \in BOOLEAN :
       Login("u1", InitialPassword, d, f)
  \/ \E tk \in tokens : Logout(tk)
  \/ Sweep
  \/ Tick({SESSION_DURATION})

SpecSweep == Init /\ [][NextSweep]_vars

\* The scheduled jobs, with and without failures, next to the administrator
\* who approves and declines subscriptions and a user who logs in.
NextCron ==
  \/ \E u \in Users, st \in BOOLEAN, end \in EndDates : UserStatus(u, st, end)
  \/ \E fails \in BOOLEAN : PremiumStatusJob(fails)
  \/ \E fails \in BOOLEAN : SessionCleanupJob(fails)
  \/ Login("u1", InitialPassword, HomeDevice, FALSE)
  \/ Tick({SESSION_DURATION})

SpecCron == Init /\ [][NextCron]_vars

\* Password resets by token for two accounts and an unknown email.
NextReset ==
  \/ \E e \in Users \cup {"nobody"} : ForgotPassword(e)
  \/ \E k \in ResetTokens, p \in Passwords : ResetPassword(k, p)
  \/ Tick({1, RESET_EXPIRY_MINUTES})

SpecReset == Init /\ [][NextReset]_vars

\* ================================================================== claims
LiveSessions(u) == getActiveSessions(sessions, u, now)

\* C1: for every user the number of sessions with isActive = true and
\* expiresAt > now is at most 2, in every state reached by logins and
\* force-logins that run one after the other, interleaved with logouts,
\* terminations, activity updates and sweeps.
C1_SessionCap ==
  \A u \in Users : Cardinality(LiveSessions(u)) <= 2

\* The cap is reached after an eviction: two live sessions and an evicted one.
C1_Witness ==
  \E u \in Users :
    /\ Cardinality(LiveSessions(u)) = 2
    /\ \E a \in DOMAIN sessions, b \in LiveSessions(u) :
         /\ sessions[a].userId = u
         /\ ~sessions[a].isActive
         /\ sessions[a].logoutTime = sessions[b].loginTime

\* The live sessions of u whose (userAgent, ipAddress) is that of dev.
Matching(u, dev) ==
  { id \in LiveSessions(u) : sessions[id].ua = dev.ua /\ sessions[id].ip = dev.ip }

\* What C3 says of one login: it succeeds and updates a matching session in
\* place (lastActivity, loginTime, expiresAt = now + 24h, isOnline), no record
\* is created, no other record changes, none is invalidated, and repeating
\* the login leaves the set of records the same.
RefreshesInPlace(u, dev, force) ==
  \A o \in login(sessions, users, tokens, u, InitialPassword, dev, force,
                 now, nextSid) :
    /\ o.status = "ok"
    /\ o.sid \in Matching(u, dev)
    /\ DOMAIN o.sessions = DOMAIN sessions
    /\ o.sessions[o.sid] =
         [sessions[o.sid] EXCEPT !.lastActivity = now, !.loginTime = now,
                                 !.isOnline = TRUE,
                                 !.expiresAt = now + SESSION_DURATION]
    /\ \A id \in (DOMAIN sessions) \ {o.sid} : o.sessions[id] = sessions[id]
    /\ \A o2 \in login(o.sessions, o.users, o.tokens, u, InitialPassword,
                       dev, force, now, nextSid) :
         DOMAIN o2.sessions = DOMAIN sessions

C4_ForceEvictsLeastRecentlyActive ==
  \A u \in Users, dev \in Devices, a \in DOMAIN sessions, b \in DOMAIN sessions :
    ( /\ a # b
      /\ LiveSessions(u) = {a, b}
      /\ sessions[a].lastActivity < sessions[b].lastActivity
      /\ Matching(u, dev) = {} ) =>
      \A o \in login(sessions, users, tokens, u, InitialPassword, dev, TRUE,
                     now, nextSid)
               \cup forceLoginHandler(sessions, users, tokens, u,
                                      InitialPassword, dev, now, nextSid) :
        /\ o.status = "ok"
        /\ o.sid \notin DOMAIN sessions
        /\ DOMAIN o.sessions = (DOMAIN sessions) \cup {o.sid}
        /\ o.sessions[a] = [sessions[a] EXCEPT !.isActive = FALSE,
                                               !.isOnline = FALSE,
                                               !.logoutTime = now]
        /\ \A id \in (DOMAIN sessions) \ {a} : o.sessions[id] = sessions[id]
        /\ o.sessions[o.sid].userId = u
        /\ o.sessions[o.sid].ua = dev.ua /\ o.sessions[o.sid].ip = dev.ip
        /\ o.sessions[o.sid].isActive
        /\ o.sessions[o.sid].expiresAt = now + SESSION_DURATION

\* A force-login has evicted a session that was created after the one that
\* survived: the survivor had been active more recently.
C4_Witness ==
  \E a \in DOMAIN sessions, b \in DOMAIN sessions, c \in DOMAIN sessions :
    /\ sessions[a].userId = sessions[b].userId
    /\ sessions[c].userId = sessions[b].userId
    /\ LiveSessions(sessions[b].userId) = {b, c}
    /\ ~sessions[a].isActive
    /\ sessions[a].logoutTime = sessions[c].loginTime
    /\ sessions[b].loginTime < sessions[a].loginTime
    /\ sessions[a].lastActivity < sessions[b].lastActivity
    /\ sessions[b].lastActivity <= sessions[c].loginTime

\* C5: with 2 live sessions, a login with forceLogin = false from a device
\* matching neither is rejected with the list of exactly those 2 sessions
\* (id, device info, lastActivity, loginTime); the Session store is unchanged
\* and no token is issued.
C5_RejectAtCap ==
  \A u \in Users, dev \in Devices :
    (Cardinality(LiveSessions(u)) = 2 /\ Matching(u, dev) = {}) =>
      \A o \in login(sessions, users, tokens, u, InitialPassword, dev, FALSE,
                     now, nextSid) :
        /\ o.status = "session_limit"
        /\ o.activeSessions =
             { [ sessionId |-> id, ua |-> sessions[id].ua, ip |-> sessions[id].ip,
                 lastActivity |-> sessions[id].lastActivity,
                 loginTime |-> sessions[id].loginTime ] : id \in LiveSessions(u) }
        /\ Cardinality(o.activeSessions) = 2
        /\ o.sessions = sessions
        /\ o.tokens = tokens

\* Two live sessions on two devices that share the user agent or the address
\* with a third device, which matches neither: its login is the rejected one.
C5_Witness ==
  \E u \in Users, dev \in Devices :
    /\ Cardinality(LiveSessions(u)) = 2
    /\ Matching(u, dev) = {}
    /\ \E id \in LiveSessions(u) : sessions[id].ua = dev.ua
    /\ login(sessions, users, tokens, u, InitialPassword, dev, FALSE,
             now, nextSid) # {}

\* C7: a token whose session is no longer live (logged out, terminated,
\* evicted or expired) authenticates no protected request: both middlewares
\* reject it.
C7_DeadSessionTokenFails ==
  \A tk \in tokens :
    ~(tk.sessionId \in DOMAIN sessions /\ IsLive(sessions[tk.sessionId], now)) =>
      /\ ~authenticateWithSession(sessions, users, tk, now).ok
      /\ ~authenticate(users, tk, now)

\* C2: when two logins of one user are served at the same time, each reading
\* the live sessions and writing its session as separate steps, both can be
\* admitted over a full quota (see C2_Witness); with two requests in flight the
\* number of live sessions never passes the cap by more than one.
C2_RaceExceedsByAtMostOne ==
  \A u \in Users : Cardinality(LiveSessions(u)) <= MAX_ACTIVE_SESSIONS + 1

\* Three live sessions of one user, two of them written by requests from
\* different devices that had both read a set of fewer than 2 sessions.
C2_Witness ==
  \E u \in Users :
    /\ Cardinality(LiveSessions(u)) = 3
    /\ \A id \in LiveSessions(u) : sessions[id].logoutTime = NoTime
    /\ \E a \in LiveSessions(u), b \in LiveSessions(u) :
         /\ a # b
         /\ ~(sessions[a].ua = sessions[b].ua /\ sessions[a].ip = sessions[b].ip)
         /\ sessions[a].loginTime = sessions[b].loginTime
    /\ \A r \in Requests : inflight[r].stage = "idle"

\* C6: login from device X creates S1, login from device Y creates S2 and
\* listSessions has 2 entries; then, S1 being the less recently active, a
\* login from a third device Z without force is rejected with those 2
\* entries, and with force it invalidates S1 and creates S3, after which
\* listSessions returns exactly S2 and S3.
C6_Scenario ==
  \A X \in Devices, Y \in Devices, Z \in Devices :
    (X # Y /\ Z # X /\ Z # Y) =>
      /\ (DOMAIN sessions = {} /\ nextSid = 1) =>
           \A o \in login(sessions, users, tokens, "u1", InitialPassword, X,
                          FALSE, now, nextSid) :
             /\ o.status = "ok" /\ o.sid = 1
             /\ DOMAIN o.sessions = {1}
             /\ getUserSessions(o.sessions, "u1", now) = {Descriptor(o.sessions, 1)}
      /\ ( /\ DOMAIN sessions = {1} /\ nextSid = 2
           /\ LiveSessions("u1") = {1}
           /\ IsSameDevice(sessions[1], X) ) =>
           \A o \in login(sessions, users, tokens, "u1", InitialPassword, Y,
                          FALSE, now, nextSid) :
             /\ o.status = "ok" /\ o.sid = 2
             /\ o.sessions[1] = sessions[1]
             /\ Cardinality(getUserSessions(o.sessions, "u1", now)) = 2
      /\ ( /\ DOMAIN sessions = {1, 2} /\ nextSid = 3
           /\ LiveSessions("u1") = {1, 2}
           /\ IsSameDevice(sessions[1], X) /\ IsSameDevice(sessions[2], Y)
           /\ sessions[1].lastActivity < sessions[2].lastActivity ) =>
           /\ \A o \in login(sessions, users, tokens, "u1", InitialPassword, Z,
                             FALSE, now, nextSid) :
                /\ o.status = "session_limit"
                /\ o.activeSessions = {Descriptor(sessions, 1), Descriptor(sessions, 2)}
                /\ o.sessions = sessions
           /\ \A o \in login(sessions, users, tokens, "u1", InitialPassword, Z,
                             TRUE, now, nextSid) :
                /\ o.status = "ok" /\ o.sid = 3
                /\ ~o.sessions[1].isActive
                /\ o.sessions[2] = sessions[2]
                /\ getUserSessions(o.sessions, "u1", now) =
                     {Descriptor(sessions, 2), Descriptor(o.sessions, 3)}
                /\ listSessions(o.sessions, o.users,
                                generateToken("u1", 3, now), now).sessions =
                     {Descriptor(sessions, 2), Descriptor(o.sessions, 3)}

\* The end of the scenario: S1, S2, S3 on three devices, created in this
\* order, S1 invalidated when S3 was created, S2 and S3 live.
C6_Witness ==
  /\ DOMAIN sessions = {1, 2, 3}
  /\ \A i \in {1, 2, 3}, j \in {1, 2, 3} :
       i # j => ~(sessions[i].ua = sessions[j].ua /\ sessions[i].ip = sessions[j].ip)
  /\ sessions[1].loginTime < sessions[2].loginTime
  /\ sessions[2].loginTime < sessions[3].loginTime
  /\ ~sessions[1].isActive
  /\ sessions[1].logoutTime = sessions[3].loginTime
  /\ LiveSessions("u1") = {2, 3}

\* C8: once the password of a user has been changed, every token issued to
\* that user before the change fails authentication, by either middleware,
\* although the token has not expired and its session is still live.
C8_OldTokensFail ==
  \A tk \in tokens :
    ( /\ users[tk.id].passwordChangedAt # NoTime
      /\ tk.iat < users[tk.id].passwordChangedAt ) =>
      /\ ~authenticateWithSession(sessions, users, tk, now).ok
      /\ ~authenticate(users, tk, now)

\* C9: counting from 0, the wrong password locks the account (isLocked,
\* lockUntil = now + 2 hours) exactly when it is the 5th in a row: an account
\* that is not locked has at most 4 failures and no lockUntil, its next wrong
\* password makes the count one more and locks it if and only if that makes 5.
C9_LockOnFifthFailure ==
  \A u \in Users :
    /\ ~users[u].isLocked =>
         /\ users[u].loginAttempts \in 0..4
         /\ users[u].lockUntil = NoTime
         /\ \A d \in Devices, f \in BOOLEAN :
              \A o \in login(sessions, users, tokens, u, "p2", d, f, now, nextSid)
                       \cup forceLoginHandler(sessions, users, tokens, u, "p2",
                                              d, now, nextSid) :
                /\ ~comparePassword(users[u], "p2") =>
                     /\ o.status = "invalid_credentials"
                     /\ o.users[u].loginAttempts = users[u].loginAttempts + 1
                     /\ o.users[u].isLocked = (users[u].loginAttempts + 1 = 5)
                     /\ o.users[u].lockUntil =
                          IF users[u].loginAttempts + 1 = 5
                            THEN now + 2 * 60 ELSE NoTime
    /\ users[u].isLocked =>
         /\ users[u].loginAttempts = 5
         /\ users[u].lockUntil # NoTime

\* The account was locked by its 5th failure, some time after the start.
C9_Witness ==
  \E u \in Users :
    /\ users[u].isLocked
    /\ users[u].loginAttempts = 5
    /\ users[u].lockUntil > 2 * 60
    /\ now < users[u].lockUntil

\* C10: while the account is locked and lockUntil has not passed, every login
\* and force-login, with the right password too, fails with the lockout
\* error, creates no session, issues no token and leaves loginAttempts,
\* isLocked and lockUntil as they were.
C10_LockedLoginRefused ==
  \A u \in Users :
    (users[u].isLocked /\ users[u].lockUntil # NoTime /\ now < users[u].lockUntil) =>
      \A p \in Passwords, d \in Devices, f \in BOOLEAN :
        \A o \in login(sessions, users, tokens, u, p, d, f, now, nextSid)
                 \cup forceLoginHandler(sessions, users, tokens, u, p, d,
                                        now, nextSid) :
          /\ o.status = "locked"
          /\ o.sid = NoSession
          /\ o.sessions = sessions
          /\ o.tokens = tokens
          /\ o.users = users

\* A locked account, its lock still running after the clock has advanced,
\* with a session it opened before the lock.
C10_Witness ==
  \E u \in Users :
    /\ users[u].isLocked
    /\ users[u].lockUntil # NoTime
    /\ now < users[u].lockUntil
    /\ users[u].lockUntil < now + 2 * 60
    /\ LiveSessions(u) # {}

\* C11: once lockUntil of a locked account has passed, a login with the right
\* password succeeds and opens a session, without anybody touching the
\* account.
C11_UnlocksAfterLockUntil ==
  \A u \in Users :
    (users[u].isLocked /\ users[u].lockUntil # NoTime /\ users[u].lockUntil < now) =>
      \A d \in Devices :
        \A o \in login(sessions, users, tokens, u, InitialPassword, d, TRUE,
                       now, nextSid) :
          /\ o.status = "ok"
          /\ o.sid # NoSession
          /\ o.sid \in getActiveSessions(o.sessions, u, now)

\* C12: once lockUntil of a locked account has passed, one more wrong
\* password leaves the failure counter at 1 and the account not locked.
C12_FailureAfterExpiryRestartsCount ==
  \A u \in Users :
    (users[u].isLocked /\ users[u].lockUntil # NoTime /\ users[u].lockUntil < now) =>
      \A d \in Devices, f \in BOOLEAN :
        \A o \in login(sessions, users, tokens, u, "p2", d, f, now, nextSid) :
          ~comparePassword(users[u], "p2") =>
            /\ o.users[u].loginAttempts = 1
            /\ ~o.users[u].isLocked

\* The outcomes of k wrong passwords in a row at POST /auth/login, from the
\* collections (S, U, T).
RECURSIVE FailedLogins(_, _, _, _, _, _)
FailedLogins(S, U, T, u, t, k) ==
  IF k = 0 THEN { Outcome("start", NoSession, {}, S, U, T) }
  ELSE UNION { login(o.sessions, o.users, o.tokens, u, "p2", HomeDevice, FALSE,
                     t, NoSession) :
               o \in FailedLogins(S, U, T, u, t, k - 1) }

\* C13: a login with the right password leaves the failure counter at 0 and
\* the lock state cleared, whatever the counter was, and the 4 wrong
\* passwords that follow it do not lock the account: only failures in a row
\* count toward the threshold of 5.
C13_SuccessResetsCount ==
  \A u \in Users :
    ~users[u].isLocked =>
      \A f \in BOOLEAN :
        \A o \in login(sessions, users, tokens, u, InitialPassword, HomeDevice,
                       f, now, nextSid) :
          comparePassword(users[u], InitialPassword) =>
            /\ o.users[u].loginAttempts = 0
            /\ ~o.users[u].isLocked
            /\ o.users[u].lockUntil = NoTime
            /\ \A k \in 0..4 :
                 \A q \in FailedLogins(o.sessions, o.users, o.tokens, u, now, k) :
                   /\ q.users[u].loginAttempts = k
                   /\ ~q.users[u].isLocked
                   /\ q.users[u].lockUntil = NoTime

\* 4 wrong passwords have followed a successful login: the account has a
\* session and 4 failures, and is not locked.
C13_Witness ==
  \E u \in Users :
    /\ users[u].loginAttempts = 4
    /\ ~users[u].isLocked
    /\ LiveSessions(u) # {}
    /\ comparePassword(users[u], InitialPassword)

\* C14: for a user that is not active, not email-verified or locked, login
\* and force-login, whatever the password (the placeholder's included), the
\* device and the force flag, create no session, refresh none and issue no
\* token.
C14_NoSessionUnlessLoginable ==
  \A e \in DOMAIN users :
    (~users[e].isActive \/ ~users[e].isEmailVerified \/ users[e].isLocked) =>
      \A p \in Passwords \cup {"temp"}, d \in Devices, f \in BOOLEAN :
        \A o \in login(sessions, users, tokens, e, p, d, f, now, nextSid)
                 \cup forceLoginHandler(sessions, users, tokens, e, p, d,
                                        now, nextSid) :
          /\ o.status \in {"deactivated", "unverified", "locked"}
          /\ o.sid = NoSession
          /\ o.sessions = sessions
          /\ o.tokens = tokens

\* The new account has verified its email and is still inactive, after the
\* clock has advanced.
C14_Witness ==
  /\ "u3" \in DOMAIN users
  /\ users["u3"].isEmailVerified
  /\ ~users["u3"].isActive
  /\ now > 0

\* The requests that present the code c for the account e, in the
\* collections (S, U, T) at time t.
Presenting(S, U, T, e, c, t) ==
  UNION { register(S, U, T, e, ph, pw, c, t) : ph \in Phones, pw \in Passwords }
  \cup verifyEmailOTP(S, U, T, e, c, t)
  \cup UNION { verifyOTPAndResetPassword(S, U, T, e, c, pw, t) : pw \in Passwords }

\* C15: register with the pending code of a placeholder, not later than its
\* expiry and with a phone nobody holds, succeeds: the account becomes active
\* and verified and its OTP hash and expiry are cleared. From then on, until
\* a new OTP is issued to the account, register, verifyEmailOTP and
\* verifyOTPAndResetPassword fail for that code and change nothing.
C15_OtpSingleUse ==
  \A e \in DOMAIN users :
    /\ \A c \in OtpCodes, ph \in Phones, pw \in Passwords :
         ( /\ ~users[e].isActive
           /\ ~users[e].isEmailVerified
           /\ users[e].emailOTP = sha256(c)
           /\ users[e].emailOTPExpires # NoTime
           /\ now <= users[e].emailOTPExpires
           /\ ~PhoneTaken(users, e, ph) ) =>
           \A o \in register(sessions, users, tokens, e, ph, pw, c, now) :
             /\ o.status = "ok"
             /\ o.users[e].isActive
             /\ o.users[e].isEmailVerified
             /\ o.users[e].emailOTP = NoOtp
             /\ o.users[e].emailOTPExpires = NoTime
             /\ \A q \in Presenting(o.sessions, o.users, o.tokens, e, c, now) :
                  /\ q.status # "ok"
                  /\ q.users = o.users
                  /\ q.tokens = o.tokens
    /\ ( /\ users[e].isActive
         /\ users[e].isEmailVerified
         /\ users[e].emailOTP = NoOtp ) =>
         \A c \in OtpCodes :
           \A q \in Presenting(sessions, users, tokens, e, c, now) :
             /\ q.status # "ok"
             /\ q.users = users
             /\ q.tokens = tokens

\* The new account has completed its registration, some time after its OTP
\* was issued.
C15_Witness ==
  /\ "u3" \in DOMAIN users
  /\ users["u3"].isActive
  /\ users["u3"].isEmailVerified
  /\ users["u3"].emailOTP = NoOtp
  /\ users["u3"].phone = "ph3"
  /\ \E tk \in tokens : tk.id = "u3" /\ tk.iat > 0

\* The requests that issue an OTP to the account e.
Issuing(S, U, T, e, t) ==
  sendRegistrationOTP(S, U, T, e, t)
  \cup resendVerificationEmail(S, U, T, e, t)
  \cup sendPasswordResetOTP(S, U, T, e, t)

\* C16: verifyOTP is false for every code, the stored one included, when the
\* clock is past the stored expiry and when no OTP is pending; the expiry of
\* an OTP is its issue time + 10 minutes, so the issued code verifies up to
\* that minute and fails after it; a request whose verification fails leaves
\* every user record as it was.
C16_ExpiredOtpFails ==
  /\ \A e \in DOMAIN users, c \in OtpCodes :
       /\ (users[e].emailOTPExpires # NoTime /\ now > users[e].emailOTPExpires)
            => ~verifyOTP(users[e], c, now)
       /\ (users[e].emailOTP = NoOtp \/ users[e].emailOTPExpires = NoTime)
            => ~verifyOTP(users[e], c, now)
       /\ ~verifyOTP(users[e], c, now) =>
            \A q \in Presenting(sessions, users, tokens, e, c, now) :
              /\ q.status # "ok"
              /\ q.users = users
  /\ \A e \in RegEmails :
       \A o \in Issuing(sessions, users, tokens, e, now) :
         o.users # users =>
           /\ o.users[e].emailOTPExpires = now + 10
           /\ \A c \in OtpCodes :
                o.users[e].emailOTP = sha256(c) =>
                  /\ verifyOTP(o.users[e], c, now + 10)
                  /\ ~verifyOTP(o.users[e], c, now + 11)

\* An OTP is pending on an account and the clock is past its expiry.
C16_Witness ==
  \E e \in DOMAIN users :
    /\ users[e].emailOTP # NoOtp
    /\ users[e].emailOTPExpires # NoTime
    /\ users[e].emailOTPExpires < now

\* C17: sendRegistrationOTP answers with the conflict error only when an
\* active user holds the email; when the record of the email is an inactive,
\* unverified placeholder, the request is accepted, the record is kept and
\* gets a new OTP that expires 10 minutes from now.
C17_PlaceholderReused ==
  \A e \in RegEmails :
    \A o \in sendRegistrationOTP(sessions, users, tokens, e, now) :
      /\ o.status = "conflict" => (e \in DOMAIN users /\ users[e].isActive)
      /\ (e \in DOMAIN users /\ ~users[e].isActive /\ ~users[e].isEmailVerified)
           => /\ o.status \in Mailed
              /\ o.users[e].emailOTP # NoOtp
              /\ o.users[e].emailOTPExpires = now + 10
              /\ o.users[e].phone = users[e].phone
              /\ o.users[e].password = users[e].password

\* C18: register fails when no inactive unverified record has the email,
\* when verifyOTP refuses the code (wrong or expired) and when another active
\* user holds the phone; a register that fails leaves every user record as
\* it was (the account inactive and unverified, its OTP hash and expiry
\* kept) and issues no token.
C18_FailedRegisterChangesNothing ==
  \A e \in RegEmails, ph \in Phones, pw \in Passwords, c \in OtpCodes :
    \A o \in register(sessions, users, tokens, e, ph, pw, c, now) :
      /\ ( \/ e \notin DOMAIN users
           \/ users[e].isActive
           \/ users[e].isEmailVerified
           \/ ~verifyOTP(users[e], c, now)
           \/ \E x \in (DOMAIN users) \ {e} :
                users[x].phone = ph /\ users[x].isActive )
           => o.status # "ok"
      /\ o.status # "ok" =>
           /\ o.users = users
           /\ o.tokens = tokens
           /\ o.sessions = sessions

\* A placeholder with an OTP that still verifies, while an active user holds
\* one of the phones a registration may ask for.
C18_Witness ==
  /\ "u3" \in DOMAIN users
  /\ ~users["u3"].isActive
  /\ ~users["u3"].isEmailVerified
  /\ \E c \in OtpCodes : verifyOTP(users["u3"], c, now)
  /\ \E x \in DOMAIN users, ph \in Phones :
       x # "u3" /\ users[x].isActive /\ users[x].phone = ph
  /\ now > 0

\* C19: terminateSession(sessionId, userId) succeeds exactly when the session
\* exists, belongs to userId and has isActive = true, and then it changes
\* that session alone (isActive and isOnline false, logoutTime now); for a
\* session of another user, a missing one and an inactive one it answers
\* not found and leaves every session as it was.
C19_TerminateOwnActiveOnly ==
  \A sid \in SessionIds, u \in Users :
    LET r == terminateSession(sessions, sid, u, now) IN
    IF sid \in DOMAIN sessions /\ sessions[sid].userId = u /\ sessions[sid].isActive
      THEN /\ r.success
           /\ DOMAIN r.store = DOMAIN sessions
           /\ ~r.store[sid].isActive
           /\ ~r.store[sid].isOnline
           /\ r.store[sid].logoutTime = now
           /\ \A id \in (DOMAIN sessions) \ {sid} : r.store[id] = sessions[id]
      ELSE /\ ~r.success
           /\ r.store = sessions

\* A session of one user was terminated after the clock advanced, while
\* another user has an active session and a third session id is unused.
C19_Witness ==
  \E a \in DOMAIN sessions, b \in DOMAIN sessions :
    /\ sessions[a].userId # sessions[b].userId
    /\ ~sessions[a].isActive
    /\ sessions[a].logoutTime > 0
    /\ sessions[b].isActive
    /\ SessionIds \ DOMAIN sessions # {}

\* C20: terminateAllOtherSessions(userId, keepSessionId) sets isActive and
\* isOnline to false and logoutTime to now on every session of userId with
\* isActive = true other than keepSessionId, changes no other field of
\* them, and leaves every other session (keepSessionId, the sessions of
\* other users, the inactive ones) as it was.
C20_TerminateOthersFrame ==
  \A u \in Users, keep \in SessionIds \cup {NoSession} :
    LET r == terminateAllOtherSessions(sessions, u, keep, now) IN
    /\ DOMAIN r = DOMAIN sessions
    /\ \A id \in DOMAIN sessions :
         IF sessions[id].userId = u /\ sessions[id].isActive /\ id # keep
           THEN /\ ~r[id].isActive
                /\ ~r[id].isOnline
                /\ r[id].logoutTime = now
                /\ [r[id] EXCEPT !.isActive = TRUE, !.isOnline = TRUE,
                                 !.logoutTime = NoTime]
                     = [sessions[id] EXCEPT !.isActive = TRUE, !.isOnline = TRUE,
                                            !.logoutTime = NoTime]
           ELSE r[id] = sessions[id]

\* A user keeps one active session next to one that was ended after the
\* clock advanced, and another user has an active session.
C20_Witness ==
  \E a \in DOMAIN sessions, b \in DOMAIN sessions, c \in DOMAIN sessions :
    /\ a # b
    /\ sessions[a].userId = sessions[b].userId
    /\ sessions[c].userId # sessions[a].userId
    /\ sessions[a].isActive
    /\ ~sessions[b].isActive
    /\ sessions[b].logoutTime > sessions[b].loginTime
    /\ sessions[b].lastActivity <= sessions[a].lastActivity
    /\ sessions[c].isActive

\* C21: a request that authenticateWithSession lets through leaves the
\* session of its token with lastActivity = now and expiresAt = now + 24 h.
C21_RequestRefreshesExpiry ==
  \A tk \in tokens :
    LET a == authenticateWithSession(sessions, users, tk, now) IN
    a.ok =>
      /\ a.store[tk.sessionId].lastActivity = now
      /\ a.store[tk.sessionId].expiresAt = now + SESSION_DURATION

\* The sessions the cleanup job's filter matches at time t.
SweepMatches(S, t) ==
  { id \in DOMAIN S :
      \/ S[id].expiresAt < t
      \/ (~S[id].isActive /\ S[id].logoutTime # NoTime
                          /\ S[id].logoutTime < t - 7 * 24 * 60) }

\* C22: the sweep deletes exactly the sessions with expiresAt < now or with
\* isActive = false and logoutTime more than 7 days ago, and leaves the rest
\* as they were; no active unexpired session is deleted, and the session
\* list, the login decision and the authentication of every token are the
\* same on the store before and after the sweep.
C22_SweepKeepsLiveSessions ==
  LET R == cleanupExpired(sessions, now) IN
  /\ DOMAIN R = (DOMAIN sessions) \ SweepMatches(sessions, now)
  /\ \A id \in DOMAIN R : R[id] = sessions[id]
  /\ \A id \in DOMAIN sessions : IsLive(sessions[id], now) => id \in DOMAIN R
  /\ \A u \in Users :
       /\ getUserSessions(R, u, now) = getUserSessions(sessions, u, now)
       /\ \A d \in Devices :
            validateLoginAttempt(R, u, d, now)
              = validateLoginAttempt(sessions, u, d, now)
  /\ \A tk \in tokens :
       /\ authenticateWithSession(R, users, tk, now).ok
            = authenticateWithSession(sessions, users, tk, now).ok
       /\ listSessions(R, users, tk, now) = listSessions(sessions, users, tk, now)

\* A sweep has removed a session, and it has kept a live session and a
\* session that was logged out less than 7 days ago.
C22_Witness ==
  /\ \E id \in 1..(nextSid - 1) : id \notin DOMAIN sessions
  /\ \E id \in DOMAIN sessions : IsLive(sessions[id], now)
  /\ \E id \in DOMAIN sessions :
       ~sessions[id].isActive /\ sessions[id].logoutTime # NoTime
  /\ SweepMatches(sessions, now) = {}

\* C23: a sweep after a sweep at the same instant changes nothing, a sweep
\* whose filter matches no session changes nothing, and a sweep before a
\* login or a logout at the same instant gives, after a closing sweep, the
\* stores the login or logout followed by one sweep gives.
C23_SweepIdempotent ==
  LET R == cleanupExpired(sessions, now) IN
  /\ cleanupExpired(R, now) = R
  /\ SweepMatches(sessions, now) = {} => R = sessions
  /\ \A e \in Emails, d \in Devices, f \in BOOLEAN :
       { [status |-> o.status, store |-> cleanupExpired(o.sessions, now)] :
           o \in login(R, users, tokens, e, InitialPassword, d, f, now, nextSid) }
       = { [status |-> o.status, store |-> cleanupExpired(o.sessions, now)] :
             o \in login(sessions, users, tokens, e, InitialPassword, d, f,
                         now, nextSid) }
  /\ \A tk \in tokens :
       cleanupExpired(logout(R, users, tk, now), now)
         = cleanupExpired(logout(sessions, users, tk, now), now)

\* Sweeps have removed two sessions and nothing is left for the next one,
\* while a session opened later is live.
C23_Witness ==
  /\ Cardinality({ id \in 1..(nextSid - 1) : id \notin DOMAIN sessions }) >= 2
  /\ SweepMatches(sessions, now) = {}
  /\ \E id \in DOMAIN sessions : IsLive(sessions[id], now)

C25_PremiumSweepIdempotent ==
  \A o \in checkPremiumStatus(users, now, FALSE) :
    /\ o.status = "ok"
    /\ DOMAIN o.users = DOMAIN users
    /\ \A e \in DOMAIN users :
         IF e \in ExpiredPremium(users, now)
           THEN o.users[e] = [users[e] EXCEPT !.isPremium = FALSE,
                                              !.status = "cancel"]
           ELSE o.users[e] = users[e]
    /\ ~ \E e \in DOMAIN o.users :
           /\ o.users[e].isPremium
           /\ o.users[e].premiumEndDate # NoTime
           /\ o.users[e].premiumEndDate < now
           /\ o.users[e].status # "cancel"
    /\ \A q \in checkPremiumStatus(o.users, now, FALSE) :
         /\ q.updatedCount = 0
         /\ q.users = o.users

\* The check has ended the subscription of a user whose premiumEndDate has
\* passed, and nobody is left for the next run.
C25_Witness ==
  /\ \E e \in DOMAIN users :
       /\ ~users[e].isPremium
       /\ users[e].status = "cancel"
       /\ users[e].premiumEndDate # NoTime
       /\ users[e].premiumEndDate < now
  /\ ExpiredPremium(users, now) = {}
  /\ cron.lastRun = "ok"

\* C26: resetPassword succeeds exactly when a user stores the hash of the
\* presented token and its expiry is later than now; the expiry is the
\* minting time + 10 minutes, so the token works 9 minutes after
\* forgotPassword and fails after 10; after a successful reset the same
\* token fails and changes nothing; a token that a later forgotPassword has
\* replaced fails; and a token drawn earlier that no user stores any more
\* fails.
C26_ResetTokenSingleUse ==
  /\ \A k \in ResetTokens, pw \in Passwords :
       \A o \in resetPassword(users, k, pw, now) :
         /\ o.status = "ok" <=>
              \E e \in DOMAIN users :
                /\ users[e].passwordResetToken = hashToken(k)
                /\ users[e].passwordResetExpires # NoTime
                /\ now < users[e].passwordResetExpires
         /\ o.status # "ok" => o.users = users
         /\ o.status = "ok" =>
              \A q \in resetPassword(o.users, k, pw, now) :
                q.status # "ok" /\ q.users = o.users
         /\ (k <= minted /\ ~ \E e \in DOMAIN users :
                               users[e].passwordResetToken = hashToken(k))
              => o.status # "ok"
  /\ \A e \in DOMAIN users, pw \in Passwords :
       LET F == forgotPassword(users, e, minted + 1, now) IN
       /\ F[e].passwordResetExpires = now + 10
       /\ \A o \in resetPassword(F, minted + 1, pw, now + 9) : o.status = "ok"
       /\ \A o \in resetPassword(F, minted + 1, pw, now + 10) : o.status # "ok"
       /\ \A k \in 1..minted :
            users[e].passwordResetToken = hashToken(k) =>
              \A o \in resetPassword(F, k, pw, now) : o.status # "ok"

\* Two tokens were drawn, a reset with one of them has succeeded after the
\* clock advanced, and no token is pending for that user.
C26_Witness ==
  /\ minted >= 2
  /\ \E e \in DOMAIN users :
       /\ users[e].passwordChangedAt > 0
       /\ users[e].passwordResetToken = NoToken
       /\ users[e].passwordResetExpires = NoTime

ForcedLogins(u, dev) ==
  login(sessions, users, tokens, u, InitialPassword, dev, TRUE, now, nextSid)
  \cup forceLoginHandler(sessions, users, tokens, u, InitialPassword, dev,
                         now, nextSid)

C29_UnforcedNeverInvalidates ==
  [][\A id \in DOMAIN sessions :
       sessions[id].isActive =>
         (id \in DOMAIN sessions' /\ sessions'[id].isActive)]_vars

\* The sessions with isActive = true and expiresAt <= now.
ExpiredActive == { id \in DOMAIN sessions :
                     sessions[id].isActive /\ sessions[id].expiresAt <= now }

\* The session store without the sessions of ExpiredActive.
WithoutExpired == [id \in (DOMAIN sessions) \ ExpiredActive |-> sessions[id]]

\* What a login answers: its status, the session it binds the token to and
\* the descriptors it sends with a rejection.
Answers(O) == { [status |-> o.status, sid |-> o.sid, list |-> o.activeSessions] :
                  o \in O }

\* C30: a session with isActive = true and expiresAt <= now is dead before
\* any sweep removes it: the login decision and the answers of login and
\* force-login are those of the store without it (it does not count toward
\* the cap), the session list does not show it, no login refreshes or
\* invalidates it or binds a token to it, and a token bound to it fails both
\* authentication middlewares.
C30_ExpiredActiveIsDead ==
  \A id \in ExpiredActive :
    LET u == sessions[id].userId IN
    /\ id \notin LiveSessions(u)
    /\ Descriptor(sessions, id) \notin getUserSessions(sessions, u, now)
    /\ getUserSessions(sessions, u, now) = getUserSessions(WithoutExpired, u, now)
    /\ \A tk \in tokens :
         Descriptor(sessions, id) \notin listSessions(sessions, users, tk, now).sessions
    /\ \A dev \in Devices :
         /\ validateLoginAttempt(sessions, u, dev, now)
              = validateLoginAttempt(WithoutExpired, u, dev, now)
         /\ \A f \in BOOLEAN :
              Answers(login(sessions, users, tokens, u, InitialPassword, dev,
                            f, now, nextSid))
                = Answers(login(WithoutExpired, users, tokens, u,
                                InitialPassword, dev, f, now, nextSid))
         /\ \A o \in login(sessions, users, tokens, u, InitialPassword, dev,
                           FALSE, now, nextSid) \cup ForcedLogins(u, dev) :
              /\ o.sid # id
              /\ o.sessions[id] = sessions[id]
    /\ \A tk \in tokens :
         tk.sessionId = id =>
           /\ ~authenticateWithSession(sessions, users, tk, now).ok
           /\ authenticateWithSession(sessions, users, tk, now).store = sessions
           /\ ~authenticate(users, tk, now)

\* A session that is still active at the very instant of its expiry, next to
\* a live session of the same user on the same device, a token bound to each.
C30_Witness ==
  \E id \in ExpiredActive, l \in DOMAIN sessions :
    /\ sessions[id].expiresAt = now
    /\ sessions[l].userId = sessions[id].userId
    /\ IsLive(sessions[l], now)
    /\ sessions[l].ua = sessions[id].ua /\ sessions[l].ip = sessions[id].ip
    /\ \E tk \in tokens : tk.sessionId = id
    /\ \E tk \in tokens : tk.sessionId = l

\* The outcomes of asking for a new OTP for the account e: resend-verification
\* while it is unverified, the password-reset OTP request once it is verified.
Reissuing(e) ==
  IF users[e].isEmailVerified
    THEN sendPasswordResetOTP(sessions, users, tokens, e, now)
    ELSE resendVerificationEmail(sessions, users, tokens, e, now)

\* C31: a user record holds one OTP hash and one expiry; asking for a new OTP
\* while one is stored overwrites both, whether or not the mail went out:
\* the stored hash is that of the newly drawn code, whatever was stored
\* before; afterwards exactly the newly drawn code verifies, until now + 10 minutes,
\* and the code stored before, when the new draw differs from it, is refused
\* by verifyOTP and by every handler it is presented to, although its own
\* expiry has not passed.
C31_NewOtpOverwrites ==
  \A e \in DOMAIN users :
    users[e].emailOTP # NoOtp =>
      /\ { o.users[e].emailOTP : o \in Reissuing(e) }
           = { sha256(c) : c \in OtpCodes }
      /\ \A o \in Reissuing(e) :
        /\ o.status \in Mailed
        /\ o.users[e].emailOTP # NoOtp
        /\ o.users[e].emailOTPExpires = now + 10
        /\ \A x \in (DOMAIN users) \ {e} : o.users[x] = users[x]
        /\ Cardinality({ c \in OtpCodes : verifyOTP(o.users[e], c, now) }) = 1
        /\ \A c \in OtpCodes :
             verifyOTP(o.users[e], c, now) <=> sha256(c) = o.users[e].emailOTP
        /\ \A c \in OtpCodes :
             (sha256(c) = users[e].emailOTP /\ o.users[e].emailOTP # users[e].emailOTP) =>
               /\ ~verifyOTP(o.users[e], c, now)
               /\ \A q \in Presenting(sessions, o.users, tokens, e, c, now) :
                    q.status # "ok" /\ q.users = o.users

\* A code is stored and unexpired on the unverified placeholder and another
\* on a registered account, both issued before the clock advanced, and a new
\* request can draw a code different from the stored one.
C31_Witness ==
  /\ "u3" \in DOMAIN users
  /\ ~users["u3"].isEmailVerified
  /\ \A e \in {"u1", "u3"} :
       /\ users[e].emailOTP # NoOtp
       /\ now > 0
       /\ now <= users[e].emailOTPExpires
       /\ users[e].emailOTPExpires < now + 10
       /\ \E c \in OtpCodes : verifyOTP(users[e], c, now)
       /\ \E o \in Reissuing(e) : o.users[e].emailOTP # users[e].emailOTP

\* C32: in every reachable state, also when failed logins of one user are
\* served at the same time, loginAttempts >= 5 implies isLocked.
C32_FiveAttemptsLocked ==
  \A u \in DOMAIN users :
    users[u].loginAttempts >= maxAttempts => users[u].isLocked

\* C33: of two requests to reset the password by OTP that verified the same
\* code of the same issuance (they loaded the same user document), served
\* with their loads and saves interleaved, at most one succeeds.
C33_OneResetPerCode ==
  \A r1 \in Requests, r2 \in Requests :
    ( /\ r1 # r2
      /\ inflight[r1].email = inflight[r2].email
      /\ inflight[r1].user = inflight[r2].user
      /\ inflight[r1].stage = "succeeded" )
    => inflight[r2].stage # "succeeded"

\* C34: sendRegistrationOTP for an email that has no record succeeds and
\* stores an inactive, unverified placeholder with a pending code, also
\* while another email has a placeholder that was not completed.
C34_PendingIndependent ==
  \A b \in PendingEmails :
    b \notin DOMAIN users =>
      \A o \in sendRegistrationOTP(sessions, users, tokens, b, now) :
        /\ o.status = "ok" \/ o.status = "mail_failed"
        /\ b \in DOMAIN o.users
        /\ ~o.users[b].isActive /\ ~o.users[b].isEmailVerified
        /\ o.users[b].emailOTP # NoOtp

\* C35: in every state reached through the OTP flows no user record has
\* isEmailVerified = true while isActive = false, and a record that
\* sendRegistrationOTP created and register has not completed is still one
\* register looks for (unverified and inactive).
C35_VerifiedImpliesActive ==
  \A e \in DOMAIN users :
    /\ users[e].isEmailVerified => users[e].isActive
    /\ users[e].phone = "temp" =>
         (~users[e].isEmailVerified /\ ~users[e].isActive)

\* The User collections in which the user u is missing or has isActive = false.
WithoutUser(u) ==
  {deleteUser(users, u)} \cup
  (IF u \in DOMAIN users THEN {[users EXCEPT ![u].isActive = FALSE]} ELSE {})

\* C36: a request with an unexpired token whose session is active and
\* unexpired, while the user record is missing or has isActive = false, is
\* refused by authenticateWithSession; the middleware invalidates that
\* session (isActive = false, isOnline = false, logoutTime = now) and leaves
\* every other session as it is, and every later request with the token is
\* refused by both middlewares without another write.
C36_MissingUserInvalidatesSession ==
  \A tk \in tokens :
    ( /\ jwtVerify(tk, now)
      /\ tk.sessionId \in DOMAIN sessions
      /\ sessions[tk.sessionId].userId = tk.id
      /\ IsLive(sessions[tk.sessionId], now) ) =>
      \A U \in WithoutUser(tk.id) :
          LET a == authenticateWithSession(sessions, U, tk, now) IN
          /\ ~a.ok
          /\ a.store = [sessions EXCEPT ![tk.sessionId].isActive = FALSE,
                                        ![tk.sessionId].isOnline = FALSE,
                                        ![tk.sessionId].logoutTime = now]
          /\ \A t \in {now, now + 1} :
               /\ ~authenticateWithSession(a.store, U, tk, t).ok
               /\ authenticateWithSession(a.store, U, tk, t).store = a.store
               /\ ~authenticateWithSession(a.store, users, tk, t).ok
               /\ ~authenticate(U, tk, t)
               /\ listSessions(a.store, U, tk, t).status = "auth_failed"

\* The account of u1 was deleted while one of its sessions was live, and a
\* request with that session's token has made the middleware invalidate it;
\* another session of the deleted account is still active and unexpired.
C36_Witness ==
  /\ "u1" \notin DOMAIN users
  /\ \E id \in DOMAIN sessions, tk \in tokens :
       /\ tk.sessionId = id /\ tk.id = "u1"
       /\ sessions[id].userId = "u1"
       /\ ~sessions[id].isActive
       /\ ~sessions[id].isOnline
       /\ sessions[id].logoutTime = now
       /\ sessions[id].expiresAt > now
  /\ \E id \in DOMAIN sessions :
       sessions[id].userId = "u1" /\ IsLive(sessions[id], now)

\* C37: a session that has become inactive never becomes active again: every
\* step leaves it inactive or deletes it, a deleted session does not come
\* back, and terminateSession on an inactive session answers 'Session not
\* found' and changes nothing, as does a logout with a token bound to it.
C37_InactiveIsAbsorbing ==
  /\ [](\A id \in DOMAIN sessions :
          ~sessions[id].isActive =>
            /\ \A u \in Users :
                 terminateSession(sessions, id, u, now)
                   = [success |-> FALSE, store |-> sessions]
            /\ \A tk \in tokens :
                 tk.sessionId = id => logout(sessions, users, tk, now) = sessions)
  /\ [][\A id \in 1..(nextSid - 1) :
          (id \notin DOMAIN sessions \/ ~sessions[id].isActive) =>
            (id \notin DOMAIN sessions' \/ ~sessions'[id].isActive)]_vars

\* A login from the device of a session refreshed that session after a
\* logout had invalidated it: the session is shown online and is still
\* inactive.
C37_Witness ==
  \E id \in DOMAIN sessions :
    /\ ~sessions[id].isActive
    /\ sessions[id].isOnline
    /\ sessions[id].logoutTime = now
    /\ sessions[id].loginTime = now
    /\ \E tk \in tokens : tk.sessionId = id

C39_OthersRouteReached ==
  \A tk \in tokens :
    LET a == authenticateWithSession(sessions, users, tk, now) IN
    a.ok =>
      deleteRequest(sessions, users, tk, <<Word("sessions"), Word("others")>>, now)
        = [status |-> "ok",
           store |-> terminateAllOtherSessions(a.store, tk.id, tk.sessionId, now)]

====
